---- MODULE Spec2Model ----
(***************************************************************************)
(* A model of the gmail-to-sqlite synchronisation engine.                  *)
(*                                                                         *)
(* The repository holds three builds of the program, which share the       *)
(* messages table but differ in how they write to it:                      *)
(*   "gmail"  - the gmail_to_sqlite package (gmail_to_sqlite/db.py,         *)
(*              gmail_to_sqlite/sync.py),                                   *)
(*   "legacy" - the flat modules (db.py, sync.py),                          *)
(*   "mail"   - the mail_to_sqlite package (src/mail_to_sqlite/db.py),      *)
(*              whose create_message takes a clobber list.                  *)
(* A behaviour is the life of one database file under one build.           *)
(***************************************************************************)
EXTENDS Integers, Sequences, FiniteSets, TLC

VARIABLES
    variant,    \* which build of the program runs against the database
    messages,   \* the messages table: message_id -> row
    now,        \* the wall clock read by datetime.now()
    shutdown,   \* shutdown_state[0], the flag check_shutdown() returns
    lastOp,     \* the last operation performed, with its arguments
    task,       \* the message a worker is fetching (thread_worker)
    run,        \* a run of all_messages or of sync_deleted_messages
    schema      \* the schema of the database file, and the last migration call

vars == <<variant, messages, now, shutdown, lastOp, task, run, schema>>

----------------------------------------------------------------------------
\* Bounds of the model.

\* message ids are 1..MaxIds
MaxIds == 3
\* the clock runs from 0 to MaxClock; every write to the table takes a tick
MaxClock == 2

Ids == 1..MaxIds
Variants == {"gmail", "legacy", "mail"}

\* An Optional value is a list of at most one element: None of Python and
\* NULL of SQL are the empty list.
Null == <<>>
Some(x) == <<x>>

----------------------------------------------------------------------------
\* The messages table.

ContentFields ==
    {"thread_id", "sender", "recipients", "subject", "body", "size",
     "timestamp", "is_outgoing"}

ClobberOptions == ContentFields \cup {"is_read", "labels"}

MessageFields == ClobberOptions

RowFields == MessageFields \cup {"is_deleted", "last_indexed"}

\* Whether the build's timestamp column is declared NOT NULL.
TimestampNotNull(v) == v # "legacy"

\* the label id -> label name mapping get_labels returns
LabelMap ==
    [l \in {"INBOX", "UNREAD", "SENT"} |->
        CASE l = "INBOX" -> "Inbox" [] l = "UNREAD" -> "Unread" [] OTHER -> "Sent"]

\* The raw messages the provider may return for an id: two renderings of the
\* content ("A", "B") with different label ids, one without any date, and one
\* that lacks the threadId key.
RawMessages(id) ==
    { [id |-> id, ver |-> "A", labelIds |-> {"INBOX", "UNREAD"}, internalDate |-> Some(id),
       hasThreadId |-> TRUE],
      [id |-> id, ver |-> "B", labelIds |-> {"SENT"}, internalDate |-> Some(id),
       hasThreadId |-> TRUE],
      [id |-> id, ver |-> "A", labelIds |-> {"INBOX"}, internalDate |-> Null,
       hasThreadId |-> TRUE],
      [id |-> id, ver |-> "B", labelIds |-> {"INBOX"}, internalDate |-> Some(id),
       hasThreadId |-> FALSE] }

\* Message.parse raises on a raw message without threadId (msg["threadId"]).
Parses(raw) == raw.hasThreadId

\* Message.from_raw: the decoded message of a raw message that parses.
from_raw(raw) ==
    [id          |-> raw.id,
     thread_id   |-> raw.ver,
     sender      |-> raw.ver,
     recipients  |-> raw.ver,
     labels      |-> {LabelMap[l] : l \in raw.labelIds \cap DOMAIN LabelMap},
     subject     |-> raw.ver,
     body        |-> raw.ver,
     size        |-> IF raw.ver = "A" THEN 10 ELSE 20,
     timestamp   |-> raw.internalDate,
     is_read     |-> "UNREAD" \notin raw.labelIds,
     is_outgoing |-> "SENT" \in raw.labelIds]

DecodedMessages(id) == {from_raw(raw) : raw \in {r \in RawMessages(id) : Parses(r)}}

\* The row INSERT proposes for msg at time t (EXCLUDED in the conflict clause).
\* The Message model of mail_to_sqlite has no is_deleted column: its rows carry
\* is_deleted = FALSE, which nothing in that build reads or writes.
InsertedRow(msg, t) ==
    [f \in RowFields |->
        CASE f = "is_deleted"   -> FALSE
          [] f = "last_indexed" -> t
          [] OTHER              -> msg[f]]

\* peewee's on_conflict(preserve, update) on a row that exists: a column in
\* preserve takes the value of the proposed row, a column in update takes the
\* given value, every other column keeps the stored value.
OnConflict_accumulates_size(old, excluded, preserve, update) ==
    [f \in RowFields |->
        IF f \in preserve THEN excluded[f]
        ELSE IF f \in DOMAIN update THEN update[f]
        ELSE IF f = "size" THEN old[f] + excluded[f]
        ELSE old[f]]

OnConflict(old, excluded, preserve, update) ==
    [f \in RowFields |->
        IF f \in preserve THEN excluded[f]
        ELSE IF f \in DOMAIN update THEN update[f]
        ELSE old[f]]

\* INSERT ... ON CONFLICT (message_id) DO UPDATE of one row.
UpsertRow(store, msg, t, preserve, update) ==
    IF msg.id \in DOMAIN store
    THEN [store EXCEPT ![msg.id] = OnConflict(@, InsertedRow(msg, t), preserve, update)]
    ELSE [i \in DOMAIN store \cup {msg.id} |->
            IF i = msg.id THEN InsertedRow(msg, t) ELSE store[i]]

\* Whether the INSERT of msg violates a NOT NULL constraint of the build.
ViolatesNotNull(v, msg) == TimestampNotNull(v) /\ msg.timestamp = Null

VolatileUpdate(msg, t) ==
    [is_read |-> msg.is_read, last_indexed |-> t, labels |-> msg.labels,
     is_deleted |-> FALSE]

\* gmail_to_sqlite/db.py create_message: the table after the call.
create_message_writes_deleted(store, msg, t) ==
    UpsertRow(store, msg, t, {},
              [VolatileUpdate(msg, t) EXCEPT !["is_deleted"] = TRUE])

create_message_keeps_deleted(store, msg, t) ==
    UpsertRow(store, msg, t, {},
              [is_read |-> msg.is_read, last_indexed |-> t, labels |-> msg.labels])

create_message_keeps_last_indexed(store, msg, t) ==
    UpsertRow(store, msg, t, {},
              [is_read |-> msg.is_read, labels |-> msg.labels, is_deleted |-> FALSE])

create_message_updates_every_row(store, msg, t) ==
    LET upserted == UpsertRow(store, msg, t, {}, VolatileUpdate(msg, t))
    IN [i \in DOMAIN upserted |->
           [upserted[i] EXCEPT !.is_read = msg.is_read, !.labels = msg.labels]]

create_message(store, msg, t) ==
    UpsertRow(store, msg, t, {}, VolatileUpdate(msg, t))

\* db.py create_message: preserve names the eight content columns.
legacy_create_message(store, msg, t) ==
    UpsertRow(store, msg, t, ContentFields, VolatileUpdate(msg, t))

\* db.py create_messages_batch: one INSERT of many rows, applied row by row.
RECURSIVE create_messages_batch(_, _, _)
create_messages_batch(store, msgs, t) ==
    IF msgs = <<>> THEN store
    ELSE create_messages_batch(
            UpsertRow(store, Head(msgs), t, {},
                      [is_read      |-> Head(msgs).is_read,
                       labels       |-> Head(msgs).labels,
                       last_indexed |-> t,
                       is_deleted   |-> FALSE]),
            Tail(msgs), t)

\* src/mail_to_sqlite/db.py create_message(msg, clobber).
mail_create_message_ignores_clobber(store, msg, t, clobber) ==
    UpsertRow(store, msg, t, {}, [last_indexed |-> t])

mail_create_message(store, msg, t, clobber) ==
    UpsertRow(store, msg, t, clobber \cap ClobberOptions, [last_indexed |-> t])

\* get_all_message_ids / get_deleted_message_ids / get_active_message_ids
get_all_message_ids(store) == DOMAIN store
get_deleted_message_ids(store) == {i \in DOMAIN store : store[i].is_deleted}
get_active_message_ids(store) == {i \in DOMAIN store : ~store[i].is_deleted}

\* the ids of a list
Range(seq) == {seq[k] : k \in 1..Len(seq)}

\* list(a_set): some list holding every element once
RECURSIVE SetToSeq(_)
SetToSeq(S) ==
    IF S = {} THEN <<>>
    ELSE LET x == CHOOSE y \in S : \A z \in S : y <= z
         IN <<x>> \o SetToSeq(S \ {x})

\* gmail_to_sqlite/db.py mark_messages_as_deleted: ids per UPDATE statement
batch_size == 100

\* one UPDATE messages SET is_deleted, last_indexed WHERE message_id IN (batch)
MarkBatch_touches_every_row(store, batch, t) ==
    [i \in DOMAIN store |-> [store[i] EXCEPT !.is_deleted = TRUE, !.last_indexed = t]]

MarkBatch_deletes_rows(store, batch, t) ==
    [i \in DOMAIN store \ Range(batch) |-> store[i]]

MarkBatch(store, batch, t) ==
    [i \in DOMAIN store |->
        IF i \in Range(batch)
        THEN [store[i] EXCEPT !.is_deleted = TRUE, !.last_indexed = t]
        ELSE store[i]]

\* for i in range(0, len(message_ids), batch_size): one UPDATE per slice
RECURSIVE MarkBatches_only_full_batches(_, _, _, _)
MarkBatches_only_full_batches(store, ids, t, size) ==
    IF Len(ids) < size THEN store
    ELSE MarkBatches_only_full_batches(MarkBatch(store, SubSeq(ids, 1, size), t),
                                       SubSeq(ids, size + 1, Len(ids)), t, size)

RECURSIVE MarkBatches(_, _, _, _)
MarkBatches(store, ids, t, size) ==
    IF ids = <<>> THEN store
    ELSE LET n == IF Len(ids) < size THEN Len(ids) ELSE size
         IN MarkBatches(MarkBatch(store, SubSeq(ids, 1, n), t),
                        SubSeq(ids, n + 1, Len(ids)), t, size)

mark_messages_as_deleted(store, ids, t) ==
    IF ids = <<>> THEN store ELSE MarkBatches(store, ids, t, batch_size)

\* db.py mark_messages_as_deleted: one UPDATE of is_deleted alone
legacy_mark_messages_as_deleted(store, ids) ==
    IF ids = <<>> THEN store
    ELSE [i \in DOMAIN store |->
            IF i \in Range(ids) THEN [store[i] EXCEPT !.is_deleted = TRUE] ELSE store[i]]

potential_deleted_ids_of_deleted_rows(store, gmail_message_ids) ==
    get_deleted_message_ids(store) \ Range(gmail_message_ids)

\* _detect_and_mark_deleted_messages: the ids it decides to mark
potential_deleted_ids(store, gmail_message_ids) ==
    get_all_message_ids(store) \ Range(gmail_message_ids)

new_deleted_ids_forgets_remote(store, gmail_message_ids) ==
    get_all_message_ids(store) \ get_deleted_message_ids(store)

new_deleted_ids(store, gmail_message_ids) ==
    LET already_deleted_ids == get_deleted_message_ids(store)
    IN IF already_deleted_ids # {}
       THEN potential_deleted_ids(store, gmail_message_ids) \ already_deleted_ids
       ELSE potential_deleted_ids(store, gmail_message_ids)

\* why _detect_and_mark_deleted_messages returns before computing anything
DetectSkip(store, flag) ==
    IF get_all_message_ids(store) = {} THEN "empty"
    ELSE IF flag THEN "shutdown"
    ELSE "none"

\* what _detect_and_mark_deleted_messages returns: len(new_deleted_ids) after
\* it marked them, None otherwise
detect_returns_zero_for_none(skip, new) ==
    IF skip # "none" \/ new = {} THEN Some(0) ELSE Some(Cardinality(new))

detect_returns(skip, new) ==
    IF skip # "none" \/ new = {} THEN Null ELSE Some(Cardinality(new))

----------------------------------------------------------------------------
\* The inputs of the store operations.

\* the clobber lists tried ("bogus" is no attribute of a message)
ClobberLists ==
    { {}, {"body"}, {"subject", "is_read", "bogus"}, ClobberOptions }

\* the first raw rendering of a message, with which a table starts
FirstRaw(id) ==
    [id |-> id, ver |-> "A", labelIds |-> {"INBOX", "UNREAD"}, internalDate |-> Some(id),
     hasThreadId |-> TRUE]

\* a table an earlier run left: the messages 1..k, synced at time 0
InitialTable(k) == [i \in 1..k |-> InsertedRow(from_raw(FirstRaw(i)), 0)]

\* a batch: one message per id of S, all of the same rendering
Batches ==
    { [k \in 1..Cardinality(S) |->
          from_raw([FirstRaw(SetToSeq(S)[k]) EXCEPT !.ver = shape.ver,
                                                    !.labelIds = shape.labelIds,
                                                    !.internalDate = Some(SetToSeq(S)[k])])]
      : S \in SUBSET Ids \ {{}},
        shape \in {r \in RawMessages(1) : Parses(r) /\ r.internalDate # Null} }

NoMessage == [id |-> 0]

Op(name, msgs, clobber, remote, marked, skip, ok, prev) ==
    [op |-> name, msgs |-> msgs, clobber |-> clobber, remote |-> remote,
     marked |-> marked, skip |-> skip, ok |-> ok, prev |-> prev, ret |-> Null]

----------------------------------------------------------------------------
\* The fetch of one message: thread_worker and _fetch_message of
\* gmail_to_sqlite/sync.py and of sync.py (the two have the same control flow).

MAX_RETRY_ATTEMPTS == 3

\* the HTTP statuses of the HttpErrors the provider raises
HttpStatuses == {404, 500, 503}

NoRaw == [id |-> 0, ver |-> "A", labelIds |-> {}, internalDate |-> Null, hasThreadId |-> FALSE]

\* What service.users().messages().get(id).execute() may do: return a raw
\* message, raise HttpError, raise TimeoutError, raise another exception.
ProviderResponses(id) ==
    {[kind |-> "ok", status |-> 200, raw |-> r] : r \in RawMessages(id)}
    \cup {[kind |-> "http", status |-> st, raw |-> NoRaw] : st \in HttpStatuses}
    \cup {[kind |-> "timeout", status |-> 0, raw |-> NoRaw],
          [kind |-> "exception", status |-> 0, raw |-> NoRaw]}

\* how an attempt ended: the response, or "decode_error" when from_raw raised
AttemptResult(resp) ==
    [kind   |-> IF resp.kind = "ok" /\ ~Parses(resp.raw) THEN "decode_error" ELSE resp.kind,
     status |-> resp.status]

Transient(res) == res.kind = "timeout" \/ (res.kind = "http" /\ res.status >= 500)

Permanent(res) == res.kind = "http" /\ res.status < 500

\* Whether _fetch_message goes on to another attempt after the failure res of
\* attempt number attempt (the except clauses).
Retries_whatever_the_status(res, attempt) == attempt < MAX_RETRY_ATTEMPTS - 1

Retries_once_too_often(res, attempt) ==
    IF res.kind = "http"
    THEN res.status >= 500 /\ attempt < MAX_RETRY_ATTEMPTS
    ELSE attempt < MAX_RETRY_ATTEMPTS

Retries_every_failure(res, attempt) ==
    IF res.kind = "http" THEN res.status >= 500 ELSE TRUE

Retries(res, attempt) ==
    IF res.kind = "http"
    THEN res.status >= 500 /\ attempt < MAX_RETRY_ATTEMPTS - 1
    ELSE attempt < MAX_RETRY_ATTEMPTS - 1

NewTask(id) ==
    [id |-> id, pc |-> "submitted", attempt |-> 0, calls |-> 0, sleeps |-> 0,
     decodes |-> 0, upserts |-> 0, hist |-> <<>>, msg |-> NoMessage,
     outcome |-> "none", result |-> FALSE, store_error |-> FALSE]

NoTask == [NewTask(0) EXCEPT !.pc = "idle"]

\* thread_worker returns: True after the upsert, False otherwise
Finished(t, outcome) ==
    [t EXCEPT !.pc = "done", !.outcome = outcome, !.result = (outcome = "success")]

\* thread_worker: if check_shutdown and check_shutdown(): return False
WorkerEntry_ignores_shutdown(t, flag) == [t EXCEPT !.pc = "loop"]

WorkerEntry(t, flag) ==
    IF flag THEN Finished(t, "cancelled") ELSE [t EXCEPT !.pc = "loop"]

\* _fetch_message: the head of the loop, with its check_interrupt(); the loop
\* is left after MAX_RETRY_ATTEMPTS iterations
LoopHeadCheck(t, flag) ==
    IF t.attempt >= MAX_RETRY_ATTEMPTS THEN Finished(t, "failed")
    ELSE IF flag THEN Finished(t, "interrupted")
    ELSE [t EXCEPT !.pc = "call"]

\* _fetch_message: check_interrupt() before the sleep of a retry
RetryInterruptCheck(t, flag) ==
    IF flag THEN Finished(t, "interrupted") ELSE [t EXCEPT !.pc = "sleep"]

\* the task after the provider call of an attempt answered resp
AfterCall(t, resp) ==
    LET res == AttemptResult(resp)
        t1  == [t EXCEPT !.calls = @ + 1,
                         !.decodes = IF resp.kind = "ok" THEN @ + 1 ELSE @,
                         !.hist = Append(@, res)]
    IN IF res.kind = "ok" THEN [t1 EXCEPT !.pc = "upsert", !.msg = from_raw(resp.raw)]
       ELSE IF Retries(res, t.attempt) THEN [t1 EXCEPT !.pc = "retry"]
       ELSE Finished(t1, "failed")

\* time.sleep(RETRY_DELAY_SECONDS), then the next iteration of the loop
AfterSleep_forgets_to_sleep(t) == [t EXCEPT !.attempt = @ + 1, !.pc = "loop"]

AfterSleep(t) == [t EXCEPT !.sleeps = @ + 1, !.attempt = @ + 1, !.pc = "loop"]

\* thread_worker after db.create_message(msg): True when the write succeeded,
\* False when it raised (except IntegrityError / except Exception)
AfterUpsert_retries_store_error(t, failed) ==
    IF failed
    THEN [t EXCEPT !.upserts = @ + 1, !.store_error = TRUE, !.pc = "retry"]
    ELSE Finished([t EXCEPT !.upserts = @ + 1], "success")

AfterUpsert(t, failed) ==
    Finished([t EXCEPT !.upserts = @ + 1, !.store_error = failed],
             IF failed THEN "failed" ELSE "success")

\* single_message: if check_shutdown and check_shutdown(): return None, before
\* the call of _fetch_message
SingleEntry(t, flag) ==
    IF flag THEN Finished(t, "cancelled") ELSE [t EXCEPT !.pc = "loop"]

\* single_message: the same check after _fetch_message returned the message
SingleAfterFetch_goes_on(t, flag) == [t EXCEPT !.pc = "write"]

SingleAfterFetch(t, flag) ==
    IF flag THEN Finished(t, "cancelled_after_fetch") ELSE [t EXCEPT !.pc = "write"]

----------------------------------------------------------------------------
\* A run: all_messages and sync_deleted_messages of gmail_to_sqlite/sync.py,
\* all_messages of src/mail_to_sqlite/sync.py (with its Gmail provider).

\* the largest num_workers tried
MaxWorkers == 2

\* The remote mailboxes tried. The remote message with id i was received at
\* time i and is rendered as FirstRaw(i).
Mailboxes == {{}, {1}, {2}, {1, 2}, {2, 3}}

\* the query argument: none, or a filter that selects the messages with an odd id
BaseQueries == {"", "q"}

BaseMatches(base, id) == base = "" \/ id % 2 = 1

\* the rank of a timestamp under ORDER BY: SQLite sorts NULL before any value
TsKey(ts) == IF ts = Null THEN 0 ELSE ts[1]

\* db.last_indexed(): the timestamp of the first row by timestamp descending
last_indexed(store) ==
    IF DOMAIN store = {} THEN Null
    ELSE LET i == CHOOSE i \in DOMAIN store :
                    \A j \in DOMAIN store :
                        TsKey(store[j].timestamp) <= TsKey(store[i].timestamp)
         IN store[i].timestamp

\* db.first_indexed(): the timestamp of the first row by timestamp ascending
first_indexed(store) ==
    IF DOMAIN store = {} THEN Null
    ELSE LET i == CHOOSE i \in DOMAIN store :
                    \A j \in DOMAIN store :
                        TsKey(store[i].timestamp) <= TsKey(store[j].timestamp)
         IN store[i].timestamp

\* db.py last_indexed() / first_indexed(): the same queries over the rows
\* WHERE timestamp IS NOT NULL
TimestampedRows(store) == {i \in DOMAIN store : store[i].timestamp # Null}

legacy_last_indexed(store) ==
    IF TimestampedRows(store) = {} THEN Null
    ELSE LET i == CHOOSE i \in TimestampedRows(store) :
                    \A j \in TimestampedRows(store) :
                        TsKey(store[j].timestamp) <= TsKey(store[i].timestamp)
         IN store[i].timestamp

legacy_first_indexed_without_filter(store) == first_indexed(store)

legacy_first_indexed(store) ==
    IF TimestampedRows(store) = {} THEN Null
    ELSE LET i == CHOOSE i \in TimestampedRows(store) :
                    \A j \in TimestampedRows(store) :
                        TsKey(store[i].timestamp) <= TsKey(store[j].timestamp)
         IN store[i].timestamp

\* "after:<int(ts.timestamp())>" and "before:<int(ts.timestamp())>"
Term(op, ts) == [op |-> op, t |-> ts[1]]

\* A query: the filter every message must match and the window terms, of which
\* a message must match one (the terms of one query are joined with " | ").
Query(base, terms) == [base |-> base, terms |-> terms]

\* all_messages of gmail_to_sqlite/sync.py: the queries it lists, in order
gmail_queries(full_sync, base, last, first) ==
    IF full_sync THEN <<Query(base, {})>>
    ELSE (IF last # Null THEN <<Query(base, {Term("after", last)})>> ELSE <<>>)
         \o (IF first # Null THEN <<Query(base, {Term("before", first)})>> ELSE <<>>)
         \o (IF last = Null /\ first = Null THEN <<Query(base, {})>> ELSE <<>>)

\* providers/gmail.py build_query(after, before)
build_query(after, before) ==
    (IF after # Null THEN {Term("after", after)} ELSE {})
    \cup (IF before # Null THEN {Term("before", before)} ELSE {})

\* all_messages of src/mail_to_sqlite/sync.py: the one query it lists
mail_queries(full_sync, last, first) ==
    IF ~full_sync /\ (last # Null \/ first # Null)
    THEN <<Query("", build_query(last, first))>>
    ELSE <<Query("", {})>>

\* Whether a message received at ts matches a window term. Whether the provider
\* counts the boundary second itself is the provider's affair (incl).
TermMatches(term, ts, incl) ==
    IF term.op = "after" THEN ts > term.t \/ (incl /\ ts = term.t)
    ELSE ts < term.t \/ (incl /\ ts = term.t)

QueryMatches(q, id, incl) ==
    /\ BaseMatches(q.base, id)
    /\ q.terms = {} \/ \E term \in q.terms : TermMatches(term, id, incl)

\* everything messages().list(q) returns, over all its pages
ListingOf(mailbox, q, incl) == SetToSeq({id \in mailbox : QueryMatches(q, id, incl)})

\* the lengths the next page may have when the pages so far held token ids
PageLengths(all, token) == IF Len(all) = token THEN {0} ELSE 1..(Len(all) - token)

NoRun ==
    [pc |-> "idle", mode |-> "incremental", base_query |-> "", num_workers |-> 0,
     clobber |-> {}, mailbox |-> {}, inclusive |-> FALSE,
     last |-> Null, first |-> Null,
     queries |-> <<>>, qi |-> 0, token |-> 0, page_ids |-> <<>>, ids |-> <<>>,
     listed |-> <<>>, observed |-> "none", discarded |-> {}, snapshot |-> Null,
     futures |-> <<>>, collected |-> {}, counted |-> {},
     processed_count |-> 0, total_synced_count |-> 0, total_messages |-> 0,
     returned |-> Null, error |-> "none"]

\* The run when the listing of its first query begins. An incremental run
\* reads the watermarks last and first of the table; sync_deleted_messages
\* lists the query argument alone.
NewRun(v, mode, base, n, clobber, mailbox, incl, store) ==
    LET last  == IF mode = "incremental" THEN last_indexed(store) ELSE Null
        first == IF mode = "incremental" THEN first_indexed(store) ELSE Null
    IN [NoRun EXCEPT
          !.pc = IF v = "mail" THEN "mail_list" ELSE "list",
          !.mode = mode, !.base_query = base, !.num_workers = n,
          !.clobber = clobber, !.mailbox = mailbox, !.inclusive = incl,
          !.last = last, !.first = first,
          !.queries = IF v = "mail" THEN mail_queries(mode = "full", last, first)
                      ELSE IF mode = "deletions" THEN <<Query(base, {})>>
                      ELSE gmail_queries(mode = "full", base, last, first),
          !.qi = 1]

\* get_message_ids_from_gmail: one iteration of the while loop, in which the
\* provider answers a page of n ids; the loop is left when check_shutdown()
\* holds or no nextPageToken came
ListPageStep_stops_after_a_page(r, flag, n) ==
    IF flag
    THEN [r EXCEPT !.pc = "list_end",
                   !.observed = IF @ = "none" THEN "list" ELSE @]
    ELSE LET all  == ListingOf(r.mailbox, r.queries[r.qi], r.inclusive)
             page == SubSeq(all, r.token + 1, r.token + n)
         IN [r EXCEPT !.page_ids = @ \o page,
                      !.listed = IF r.token = 0 THEN Append(@, r.queries[r.qi]) ELSE @,
                      !.token = 0,
                      !.pc = "list_end"]

ListPageStep(r, flag, n) ==
    IF flag
    THEN [r EXCEPT !.pc = "list_end",
                   !.observed = IF @ = "none" THEN "list" ELSE @]
    ELSE LET all  == ListingOf(r.mailbox, r.queries[r.qi], r.inclusive)
             page == SubSeq(all, r.token + 1, r.token + n)
             more == r.token + n < Len(all)
         IN [r EXCEPT !.page_ids = @ \o page,
                      !.listed = IF r.token = 0 THEN Append(@, r.queries[r.qi]) ELSE @,
                      !.token = IF more THEN r.token + n ELSE 0,
                      !.pc = IF more THEN "list" ELSE "list_end"]

\* get_message_ids_from_gmail: messages().list(...).execute() raises; the
\* function raises SyncError, which all_messages lets through to main (the
\* process exits with status 1) and sync_deleted_messages logs before it
\* returns None
ListFailure_ends_the_listing(r) ==
    [r EXCEPT !.pc = "list_end", !.token = 0, !.error = "logged"]

ListFailure(r) ==
    [r EXCEPT !.pc = "failed",
              !.error = IF r.mode = "deletions" THEN "logged" ELSE "raised"]

\* get_message_ids_from_gmail after the loop: [] when check_shutdown() holds,
\* the collected ids otherwise; all_messages extends all_message_ids with it
\* and goes on to its next query
ListReturn(r, flag) ==
    LET result == IF flag THEN <<>> ELSE r.page_ids
        r1 == [r EXCEPT !.ids = @ \o result,
                        !.observed = IF flag /\ @ = "none" THEN "list" ELSE @,
                        !.discarded = IF flag THEN @ \cup Range(r.page_ids) ELSE @,
                        !.page_ids = <<>>,
                        !.token = 0]
    IN IF r.qi < Len(r.queries)
       THEN [r1 EXCEPT !.qi = @ + 1, !.pc = "list"]
       ELSE [r1 EXCEPT !.pc = "listed"]

\* whether the run of this mode calls _detect_and_mark_deleted_messages
RunsDetector_in_every_mode(mode) == TRUE

RunsDetector(mode) == mode \in {"full", "deletions"}

\* all_messages / sync_deleted_messages after the listing: return when
\* check_shutdown() holds
AfterListing_ignores_shutdown(r, flag) ==
    [r EXCEPT !.pc = IF RunsDetector(r.mode) THEN "detect" ELSE "dispatch"]

AfterListing_returns_early_in_sync_only(r, flag) ==
    IF flag /\ ~RunsDetector(r.mode)
    THEN [r EXCEPT !.pc = "done",
                   !.returned = Some(0),
                   !.observed = IF @ = "none" THEN "listed" ELSE @,
                   !.discarded = @ \cup Range(r.ids)]
    ELSE [r EXCEPT !.pc = IF RunsDetector(r.mode) THEN "detect" ELSE "dispatch"]

AfterListing(r, flag) ==
    IF flag
    THEN [r EXCEPT !.pc = "done",
                   !.returned = IF r.mode = "deletions" THEN Null ELSE Some(0),
                   !.observed = IF @ = "none" THEN "listed" ELSE @,
                   !.discarded = @ \cup Range(r.ids)]
    ELSE [r EXCEPT !.pc = IF RunsDetector(r.mode) THEN "detect" ELSE "dispatch"]

\* all_messages: one future per element of all_message_ids
Dispatch(r) ==
    [r EXCEPT !.futures = [k \in 1..Len(r.ids) |-> NewTask(r.ids[k])],
              !.pc = "pool"]

\* the futures a thread of the pool is running
Running(futs) == {f \in DOMAIN futs : futs[f].pc \notin {"submitted", "done"}}

\* ThreadPoolExecutor(max_workers = n): a queued future starts when fewer than
\* n are running, the one queued first
CanStart_unbounded(futs, n) == TRUE

CanStart(futs, n) == Cardinality(Running(futs)) < n

Queued(futs) == {f \in DOMAIN futs : futs[f].pc = "submitted"}

NextQueued(futs) == CHOOSE f \in Queued(futs) : \A g \in Queued(futs) : f <= g

\* all_messages: the body of the as_completed loop for the finished future f
Collect_gives_up_on_failure(r, f, flag) ==
    IF ~flag /\ ~r.futures[f].result
    THEN [r EXCEPT !.collected = DOMAIN r.futures]
    ELSE [r EXCEPT !.collected = @ \cup {f},
                   !.counted = IF flag THEN @ ELSE @ \cup {f},
                   !.processed_count = IF flag THEN @ ELSE @ + 1,
                   !.total_synced_count = IF flag \/ ~r.futures[f].result THEN @ ELSE @ + 1]

Collect(r, f, flag) ==
    IF flag
    THEN [r EXCEPT !.collected = @ \cup {f}]
    ELSE [r EXCEPT !.collected = @ \cup {f},
                   !.counted = @ \cup {f},
                   !.processed_count = @ + 1,
                   !.total_synced_count = IF r.futures[f].result THEN @ + 1 ELSE @]

\* the answers of messages().get(id) tried in a run
RunResponses(id) ==
    {resp \in ProviderResponses(id) :
        \/ resp.kind = "ok" /\ resp.raw = FirstRaw(id)
        \/ resp.kind = "http" /\ resp.status \in {404, 503}}

\* the clobber lists tried in a run of mail_to_sqlite
RunClobberLists == {{}, {"body"}}

----------------------------------------------------------------------------
\* The schema of the database of gmail_to_sqlite and its migrations
\* (migrations.py, schema_migrations/v1_add_is_deleted_column.py).

\* the largest number of migration calls on one database
MaxCalls == 3

\* The schema: the version record of the schema_version table (none when the
\* table is empty or absent) and whether messages has the column is_deleted.
\* is_deleted of a row of the model is read only when the column exists.
SchemaOf(version, column) == [version |-> version, is_deleted |-> column]

\* The statement of a migration call that raises, if one does: ALTER TABLE ADD
\* COLUMN, the UPDATE that follows it, CREATE TABLE schema_version, the INSERT
\* of the version record (after the DELETE of the old one).
MigrationFaults == {"none", "add_column", "update", "create_table", "insert"}

\* the database file and the migration calls made on it, in order
SchemaState(db, log) == [db |-> db, log |-> log]

\* the database after db.init of an earlier process: version 1, with is_deleted
MigratedSchema == SchemaState(SchemaOf(Some(1), TRUE), <<>>)

\* The databases db.init hands to run_migrations after create_tables: a new
\* file (messages created with is_deleted, no version record), the file of a
\* release that had no is_deleted column, and a migrated file.
SchemasBeforeMigration ==
    {SchemaOf(Null, TRUE), SchemaOf(Null, FALSE), SchemaOf(Some(1), TRUE)}

Outcome(db, ok) == [db |-> db, ok |-> ok]

\* column_exists("messages", "is_deleted")
column_exists(db) == db.is_deleted

\* get_schema_version()
get_schema_version(db) == IF db.version = Null THEN 0 ELSE db.version[1]

\* the versions set_schema_version is called with: 1 by run_migrations, 5 by
\* test_schema_version_functions, 2 as a value between them
Versions == {1, 2, 5}

set_schema_version_keeps_old_rows(db, version, fault) ==
    IF fault = "create_table" THEN Outcome(db, FALSE)
    ELSE IF fault = "insert" THEN Outcome(db, FALSE)
    ELSE Outcome([db EXCEPT !.version = Append(db.version, version)], TRUE)

\* set_schema_version(version)
set_schema_version(db, version, fault) ==
    IF fault = "create_table" THEN Outcome(db, FALSE)
    ELSE IF fault = "insert" THEN Outcome([db EXCEPT !.version = Null], FALSE)
    ELSE Outcome([db EXCEPT !.version = Some(version)], TRUE)

\* schema_migrations/v1_add_is_deleted_column.py run()
migration_v1_run_without_check(db, fault) ==
    IF fault = "add_column" \/ db.is_deleted THEN Outcome(db, FALSE)
    ELSE IF fault = "update" THEN Outcome([db EXCEPT !.is_deleted = TRUE], FALSE)
    ELSE Outcome([db EXCEPT !.is_deleted = TRUE], TRUE)

migration_v1_run(db, fault) ==
    IF column_exists(db) THEN Outcome(db, TRUE)
    ELSE IF fault = "add_column" THEN Outcome(db, FALSE)
    ELSE IF fault = "update" THEN Outcome([db EXCEPT !.is_deleted = TRUE], FALSE)
    ELSE Outcome([db EXCEPT !.is_deleted = TRUE], TRUE)

\* migrations.py run_migrations()
run_migrations_sets_no_version(db, fault) ==
    IF get_schema_version(db) = 0
    THEN migration_v1_run(db, fault)
    ELSE Outcome(db, TRUE)

run_migrations(db, fault) ==
    LET current_version == get_schema_version(db)
    IN IF current_version = 0
       THEN LET v1 == migration_v1_run(db, fault)
            IN IF v1.ok THEN set_schema_version(v1.db, 1, fault)
               ELSE Outcome(v1.db, FALSE)
       ELSE Outcome(db, TRUE)

----------------------------------------------------------------------------
\* The store under the calls of the three builds.

Init ==
    /\ variant \in Variants
    /\ messages \in {InitialTable(k) : k \in 0..MaxIds}
    /\ now = 0
    /\ shutdown = FALSE
    /\ lastOp = Op("init", <<>>, {}, {}, {}, "none", TRUE, messages)
    /\ task = NoTask
    /\ run = NoRun
    /\ schema = MigratedSchema

\* a write of the table that raises leaves the table as it was
Write(name, msg, clobber, after) ==
    /\ now < MaxClock
    /\ now' = now + 1
    /\ IF ViolatesNotNull(variant, msg)
       THEN /\ messages' = messages
            /\ lastOp' = Op(name, <<msg>>, clobber, {}, {}, "none", FALSE, messages)
       ELSE /\ messages' = after
            /\ lastOp' = Op(name, <<msg>>, clobber, {}, {}, "none", TRUE, messages)
    /\ UNCHANGED <<schema, variant, shutdown, task, run>>

\* gmail_to_sqlite: db.create_message(msg) of a fetched message
CreateMessage ==
    /\ variant = "gmail"
    /\ \E id \in Ids : \E msg \in DecodedMessages(id) :
          Write("create_message", msg, {}, create_message(messages, msg, now + 1))

\* db.py: db.create_message(msg)
LegacyCreateMessage ==
    /\ variant = "legacy"
    /\ \E id \in Ids : \E msg \in DecodedMessages(id) :
          Write("create_message", msg, {}, legacy_create_message(messages, msg, now + 1))

\* db.py: db.create_messages_batch(msg_objects)
CreateMessagesBatch ==
    /\ variant = "legacy"
    /\ now < MaxClock
    /\ now' = now + 1
    /\ \E msgs \in Batches :
          /\ messages' = create_messages_batch(messages, msgs, now + 1)
          /\ lastOp' = Op("create_messages_batch", msgs, {}, {}, {}, "none", TRUE, messages)
    /\ UNCHANGED <<schema, variant, shutdown, task, run>>

\* db.py: db.mark_messages_as_deleted(message_ids)
LegacyMarkMessagesAsDeleted ==
    /\ variant = "legacy"
    /\ now < MaxClock
    /\ now' = now + 1
    /\ \E S \in SUBSET Ids :
          /\ messages' = legacy_mark_messages_as_deleted(messages, SetToSeq(S))
          /\ lastOp' = Op("mark_messages_as_deleted", <<>>, {}, S,
                          S \cap DOMAIN messages, "none", TRUE, messages)
    /\ UNCHANGED <<schema, variant, shutdown, task, run>>

\* mail_to_sqlite: db.create_message(msg, clobber)
MailCreateMessage ==
    /\ variant = "mail"
    /\ \E id \in Ids : \E msg \in DecodedMessages(id) : \E clobber \in ClobberLists :
          Write("create_message", msg, clobber,
                mail_create_message(messages, msg, now + 1, clobber))

\* gmail_to_sqlite: _detect_and_mark_deleted_messages(gmail_message_ids, check_shutdown)
DetectAndMarkDeleted ==
    /\ variant = "gmail"
    /\ now < MaxClock
    /\ \E R \in SUBSET Ids :
        LET gmail_message_ids == SetToSeq(R)
            skip == DetectSkip(messages, shutdown)
            new  == new_deleted_ids(messages, gmail_message_ids)
        IN IF skip # "none" \/ new = {}
           THEN /\ UNCHANGED <<messages, now>>
                /\ lastOp' = [Op("detect", <<>>, {}, R, {}, skip, TRUE, messages)
                                 EXCEPT !.ret = detect_returns(skip, new)]
           ELSE /\ now' = now + 1
                /\ messages' = mark_messages_as_deleted(messages, SetToSeq(new), now + 1)
                /\ lastOp' = [Op("detect", <<>>, {}, R, new, skip, TRUE, messages)
                                 EXCEPT !.ret = detect_returns(skip, new)]
    /\ UNCHANGED <<schema, variant, shutdown, task, run>>

\* main.py handle_sigint (gmail_to_sqlite and flat): the first SIGINT requests
\* the shutdown
HandleSigint_toggles_the_flag ==
    /\ variant # "mail"
    /\ shutdown' = ~shutdown
    /\ lastOp' = Op("sigint", <<>>, {}, {}, {}, "none", TRUE, messages)
    /\ UNCHANGED <<schema, variant, messages, now, task, run>>

HandleSigint ==
    /\ variant # "mail"
    /\ ~shutdown
    /\ shutdown' = TRUE
    /\ lastOp' = Op("sigint", <<>>, {}, {}, {}, "none", TRUE, messages)
    /\ UNCHANGED <<schema, variant, messages, now, task, run>>

Next ==
    \/ CreateMessage
    \/ LegacyCreateMessage
    \/ CreateMessagesBatch
    \/ LegacyMarkMessagesAsDeleted
    \/ MailCreateMessage
    \/ DetectAndMarkDeleted
    \/ HandleSigint

Spec == Init /\ [][Next]_vars

----------------------------------------------------------------------------
\* The steps of the fetch of one message.

\* executor.submit(thread_worker, msg_id)
Submit ==
    /\ task.pc = "idle"
    /\ \E id \in Ids : task' = NewTask(id)
    /\ UNCHANGED <<schema, variant, messages, now, shutdown, lastOp, run>>

\* thread_worker: if check_shutdown(): return False
WorkerStart ==
    /\ task.pc = "submitted"
    /\ task' = WorkerEntry(task, shutdown)
    /\ UNCHANGED <<schema, variant, messages, now, shutdown, lastOp, run>>

\* _fetch_message: the head of the loop and its check_interrupt()
LoopHead ==
    /\ task.pc = "loop"
    /\ task' = LoopHeadCheck(task, shutdown)
    /\ UNCHANGED <<schema, variant, messages, now, shutdown, lastOp, run>>

\* _fetch_message: the provider call of the attempt, from_raw on its answer,
\* and the except clause that handles what was raised
ProviderCall ==
    /\ task.pc = "call"
    /\ \E resp \in ProviderResponses(task.id) : task' = AfterCall(task, resp)
    /\ UNCHANGED <<schema, variant, messages, now, shutdown, lastOp, run>>

\* _fetch_message: check_interrupt() before the sleep of a retry
RetryCheck ==
    /\ task.pc = "retry"
    /\ task' = RetryInterruptCheck(task, shutdown)
    /\ UNCHANGED <<schema, variant, messages, now, shutdown, lastOp, run>>

\* _fetch_message: time.sleep(RETRY_DELAY_SECONDS)
Sleep ==
    /\ task.pc = "sleep"
    /\ task' = AfterSleep(task)
    /\ UNCHANGED <<schema, variant, messages, now, shutdown, lastOp, run>>

\* thread_worker: db.create_message(msg) and the return
WorkerUpsert ==
    /\ task.pc = "upsert"
    /\ now < MaxClock
    /\ now' = now + 1
    /\ LET failed == ViolatesNotNull(variant, task.msg)
           after  == IF variant = "gmail"
                     THEN create_message(messages, task.msg, now + 1)
                     ELSE legacy_create_message(messages, task.msg, now + 1)
       IN /\ messages' = IF failed THEN messages ELSE after
          /\ lastOp' = Op("create_message", <<task.msg>>, {}, {}, {}, "none", ~failed,
                          messages)
          /\ task' = AfterUpsert(task, failed)
    /\ UNCHANGED <<schema, variant, shutdown, run>>

InitFetch ==
    /\ variant \in {"gmail", "legacy"}
    /\ messages \in {InitialTable(k) : k \in 0..MaxIds}
    /\ now = 0
    /\ shutdown = FALSE
    /\ lastOp = Op("init", <<>>, {}, {}, {}, "none", TRUE, messages)
    /\ task = NoTask
    /\ run = NoRun
    /\ schema = MigratedSchema

NextFetch ==
    \/ Submit
    \/ WorkerStart
    \/ LoopHead
    \/ ProviderCall
    \/ RetryCheck
    \/ Sleep
    \/ WorkerUpsert
    \/ HandleSigint

SpecFetch == InitFetch /\ [][NextFetch]_vars

----------------------------------------------------------------------------
\* sync-message: single_message(credentials, message_id, check_shutdown)

\* main.py calls sync.single_message for the id given on the command line
SingleMessage ==
    /\ task.pc = "idle"
    /\ \E id \in Ids : task' = NewTask(id)
    /\ UNCHANGED <<schema, variant, messages, now, shutdown, lastOp, run>>

\* single_message: check_shutdown() before the fetch
SingleCheckBeforeFetch ==
    /\ task.pc = "submitted"
    /\ task' = SingleEntry(task, shutdown)
    /\ UNCHANGED <<schema, variant, messages, now, shutdown, lastOp, run>>

\* single_message: check_shutdown() after the fetch
SingleCheckAfterFetch ==
    /\ task.pc = "upsert"
    /\ task' = SingleAfterFetch(task, shutdown)
    /\ UNCHANGED <<schema, variant, messages, now, shutdown, lastOp, run>>

\* single_message: db.create_message(msg); an IntegrityError is logged
SingleWrite ==
    /\ task.pc = "write"
    /\ now < MaxClock
    /\ now' = now + 1
    /\ LET failed == ViolatesNotNull(variant, task.msg)
           after  == IF variant = "gmail"
                     THEN create_message(messages, task.msg, now + 1)
                     ELSE legacy_create_message(messages, task.msg, now + 1)
       IN /\ messages' = IF failed THEN messages ELSE after
          /\ lastOp' = Op("create_message", <<task.msg>>, {}, {}, {}, "none", ~failed,
                          messages)
          /\ task' = AfterUpsert(task, failed)
    /\ UNCHANGED <<schema, variant, shutdown, run>>

\* One sync-message command; the steps of _fetch_message are those of the
\* worker (LoopHead, ProviderCall, RetryCheck, Sleep).
NextSingle ==
    \/ SingleMessage
    \/ SingleCheckBeforeFetch
    \/ LoopHead
    \/ ProviderCall
    \/ RetryCheck
    \/ Sleep
    \/ SingleCheckAfterFetch
    \/ SingleWrite
    \/ HandleSigint

SpecSingle == InitFetch /\ [][NextSingle]_vars

----------------------------------------------------------------------------
\* The steps of a run.

\* main.py calls sync.all_messages / sync.sync_deleted_messages (gmail_to_sqlite)
\* or sync.all_messages (mail_to_sqlite): the queries of the run
StartRun ==
    /\ run.pc = "idle"
    /\ \E mailbox \in Mailboxes : \E incl \in BOOLEAN :
          \/ /\ variant = "gmail"
             /\ \E mode \in {"incremental", "full", "deletions"} :
                \E base \in BaseQueries : \E n \in 1..MaxWorkers :
                   run' = NewRun(variant, mode, base, n, {}, mailbox, incl, messages)
          \/ /\ variant = "mail"
             /\ \E mode \in {"incremental", "full"} : \E clobber \in RunClobberLists :
                   run' = NewRun(variant, mode, "", 0, clobber, mailbox, incl, messages)
    /\ UNCHANGED <<schema, variant, messages, now, shutdown, lastOp, task>>

\* get_message_ids_from_gmail: an iteration of the while loop
ListPage ==
    /\ run.pc = "list"
    /\ \E n \in PageLengths(ListingOf(run.mailbox, run.queries[run.qi], run.inclusive),
                            run.token) :
          run' = ListPageStep(run, shutdown, n)
    /\ UNCHANGED <<schema, variant, messages, now, shutdown, lastOp, task>>

\* get_message_ids_from_gmail: the listing call of an iteration raises
ListPageFails ==
    /\ run.pc = "list"
    /\ ~shutdown
    /\ run' = ListFailure(run)
    /\ UNCHANGED <<schema, variant, messages, now, shutdown, lastOp, task>>

\* get_message_ids_from_gmail: the check after the loop and the return
ListDone ==
    /\ run.pc = "list_end"
    /\ run' = ListReturn(run, shutdown)
    /\ UNCHANGED <<schema, variant, messages, now, shutdown, lastOp, task>>

\* all_messages / sync_deleted_messages: the check_shutdown() after the listing
ListingChecked ==
    /\ run.pc = "listed"
    /\ run' = AfterListing(run, shutdown)
    /\ UNCHANGED <<schema, variant, messages, now, shutdown, lastOp, task>>

\* _detect_and_mark_deleted_messages(all_message_ids, check_shutdown)
RunDetect ==
    /\ run.pc = "detect"
    /\ LET R    == Range(run.ids)
           skip == DetectSkip(messages, shutdown)
           new  == new_deleted_ids(messages, run.ids)
       IN /\ IF skip # "none" \/ new = {}
             THEN /\ UNCHANGED <<messages, now>>
                  /\ lastOp' = [Op("detect", <<>>, {}, R, {}, skip, TRUE, messages)
                                   EXCEPT !.ret = detect_returns(skip, new)]
             ELSE /\ now < MaxClock
                  /\ now' = now + 1
                  /\ messages' = mark_messages_as_deleted(messages, SetToSeq(new), now + 1)
                  /\ lastOp' = [Op("detect", <<>>, {}, R, new, skip, TRUE, messages)
                                   EXCEPT !.ret = detect_returns(skip, new)]
          /\ run' = [run EXCEPT !.snapshot = Some(R),
                                !.pc = IF run.mode = "deletions" THEN "done"
                                       ELSE "dispatch"]
    /\ UNCHANGED <<schema, variant, shutdown, task>>

\* all_messages: executor.submit(thread_worker, msg_id) for every msg_id
SubmitAll ==
    /\ run.pc = "dispatch"
    /\ run' = Dispatch(run)
    /\ UNCHANGED <<schema, variant, messages, now, shutdown, lastOp, task>>

\* a thread of the pool takes the next queued future: thread_worker begins
PoolStart ==
    /\ run.pc = "pool"
    /\ Queued(run.futures) # {}
    /\ CanStart(run.futures, run.num_workers)
    /\ LET f == NextQueued(run.futures)
       IN run' = [run EXCEPT !.futures[f] = WorkerEntry(@, shutdown)]
    /\ UNCHANGED <<schema, variant, messages, now, shutdown, lastOp, task>>

\* _fetch_message in a thread of the pool: the head of the loop
PoolLoopHead ==
    /\ run.pc = "pool"
    /\ \E f \in DOMAIN run.futures :
          /\ run.futures[f].pc = "loop"
          /\ run' = [run EXCEPT !.futures[f] = LoopHeadCheck(@, shutdown)]
    /\ UNCHANGED <<schema, variant, messages, now, shutdown, lastOp, task>>

\* _fetch_message in a thread of the pool: the provider call of an attempt
PoolProviderCall ==
    /\ run.pc = "pool"
    /\ \E f \in DOMAIN run.futures :
          /\ run.futures[f].pc = "call"
          /\ \E resp \in RunResponses(run.futures[f].id) :
                run' = [run EXCEPT !.futures[f] = AfterCall(@, resp)]
    /\ UNCHANGED <<schema, variant, messages, now, shutdown, lastOp, task>>

\* _fetch_message in a thread of the pool: check_interrupt() before the sleep
PoolRetryCheck ==
    /\ run.pc = "pool"
    /\ \E f \in DOMAIN run.futures :
          /\ run.futures[f].pc = "retry"
          /\ run' = [run EXCEPT !.futures[f] = RetryInterruptCheck(@, shutdown)]
    /\ UNCHANGED <<schema, variant, messages, now, shutdown, lastOp, task>>

\* _fetch_message in a thread of the pool: the sleep
PoolSleep ==
    /\ run.pc = "pool"
    /\ \E f \in DOMAIN run.futures :
          /\ run.futures[f].pc = "sleep"
          /\ run' = [run EXCEPT !.futures[f] = AfterSleep(@)]
    /\ UNCHANGED <<schema, variant, messages, now, shutdown, lastOp, task>>

PoolUpsert_checks_shutdown ==
    /\ run.pc = "pool"
    /\ now < MaxClock
    /\ \E f \in DOMAIN run.futures :
          /\ run.futures[f].pc = "upsert"
          /\ IF shutdown
             THEN /\ run' = [run EXCEPT !.futures[f] = Finished(@, "interrupted")]
                  /\ UNCHANGED <<messages, now, lastOp>>
             ELSE LET msg == run.futures[f].msg
                  IN /\ now' = now + 1
                     /\ messages' = create_message(messages, msg, now + 1)
                     /\ lastOp' = Op("create_message", <<msg>>, {}, {}, {}, "none", TRUE,
                                     messages)
                     /\ run' = [run EXCEPT !.futures[f] = AfterUpsert(@, FALSE)]
    /\ UNCHANGED <<schema, variant, shutdown, task>>

\* thread_worker in a thread of the pool: db.create_message(msg) and the return
PoolUpsert ==
    /\ run.pc = "pool"
    /\ now < MaxClock
    /\ now' = now + 1
    /\ \E f \in DOMAIN run.futures :
          /\ run.futures[f].pc = "upsert"
          /\ LET msg    == run.futures[f].msg
                 failed == ViolatesNotNull(variant, msg)
             IN /\ messages' = IF failed THEN messages
                               ELSE create_message(messages, msg, now + 1)
                /\ lastOp' = Op("create_message", <<msg>>, {}, {}, {}, "none", ~failed,
                                messages)
                /\ run' = [run EXCEPT !.futures[f] = AfterUpsert(@, failed)]
    /\ UNCHANGED <<schema, variant, shutdown, task>>

\* all_messages: as_completed yields a finished future
CollectFuture ==
    /\ run.pc = "pool"
    /\ \E f \in DOMAIN run.futures \ run.collected :
          /\ run.futures[f].pc = "done"
          /\ run' = Collect(run, f, shutdown)
    /\ UNCHANGED <<schema, variant, messages, now, shutdown, lastOp, task>>

\* all_messages: every future was yielded; return total_synced_count
ReturnCount ==
    /\ run.pc = "pool"
    /\ run.collected = DOMAIN run.futures
    /\ run' = [run EXCEPT !.pc = "done", !.returned = Some(run.total_synced_count)]
    /\ UNCHANGED <<schema, variant, messages, now, shutdown, lastOp, task>>

\* mail_to_sqlite all_messages: provider.list_messages(query, page_token)
MailListPage ==
    /\ run.pc = "mail_list"
    /\ LET all == ListingOf(run.mailbox, run.queries[run.qi], run.inclusive)
       IN \E n \in PageLengths(all, run.token) :
             LET page == SubSeq(all, run.token + 1, run.token + n)
                 more == run.token + n < Len(all)
             IN run' = [run EXCEPT !.page_ids = page,
                                   !.ids = @ \o page,
                                   !.listed = IF run.token = 0
                                              THEN Append(@, run.queries[run.qi]) ELSE @,
                                   !.total_messages = @ + Len(page),
                                   !.token = IF more THEN run.token + n ELSE 0,
                                   !.pc = "mail_fetch"]
    /\ UNCHANGED <<schema, variant, messages, now, shutdown, lastOp, task>>

\* mail_to_sqlite all_messages: provider.get_message(id) and
\* db.create_message(msg, clobber) for the next message of the page; a message
\* that cannot be fetched is skipped
MailSyncMessage ==
    /\ run.pc = "mail_fetch"
    /\ run.page_ids # <<>>
    /\ now < MaxClock
    /\ \E resp \in RunResponses(Head(run.page_ids)) :
          IF resp.kind = "ok"
          THEN LET msg == from_raw(resp.raw)
               IN /\ now' = now + 1
                  /\ messages' = mail_create_message(messages, msg, now + 1, run.clobber)
                  /\ lastOp' = Op("create_message", <<msg>>, run.clobber, {}, {}, "none",
                                  TRUE, messages)
          ELSE UNCHANGED <<messages, now, lastOp>>
    /\ run' = [run EXCEPT !.page_ids = Tail(@)]
    /\ UNCHANGED <<schema, variant, shutdown, task>>

\* mail_to_sqlite all_messages: the end of a page; return total_messages after
\* the page without nextPageToken
MailPageDone ==
    /\ run.pc = "mail_fetch"
    /\ run.page_ids = <<>>
    /\ run' = IF run.token # 0 THEN [run EXCEPT !.pc = "mail_list"]
              ELSE [run EXCEPT !.pc = "done", !.returned = Some(run.total_messages)]
    /\ UNCHANGED <<schema, variant, messages, now, shutdown, lastOp, task>>

InitRun ==
    /\ variant \in {"gmail", "mail"}
    /\ messages \in {InitialTable(k) : k \in 0..MaxIds}
    /\ now = 0
    /\ shutdown = FALSE
    /\ lastOp = Op("init", <<>>, {}, {}, {}, "none", TRUE, messages)
    /\ task = NoTask
    /\ run = NoRun
    /\ schema = MigratedSchema

NextRun ==
    \/ StartRun
    \/ ListPage
    \/ ListPageFails
    \/ ListDone
    \/ ListingChecked
    \/ RunDetect
    \/ SubmitAll
    \/ PoolStart
    \/ PoolLoopHead
    \/ PoolProviderCall
    \/ PoolRetryCheck
    \/ PoolSleep
    \/ PoolUpsert
    \/ CollectFuture
    \/ ReturnCount
    \/ MailListPage
    \/ MailSyncMessage
    \/ MailPageDone
    \/ HandleSigint

SpecRun == InitRun /\ [][NextRun]_vars

----------------------------------------------------------------------------
\* Runs of gmail_to_sqlite that follow one another on the same database, with
\* the remote mailbox unchanged.

\* main.py runs "sync", "sync --full-sync" or "sync-deleted-messages": it passes
\* the number of workers and no query
FirstInvocation ==
    /\ run.pc = "idle"
    /\ \E mailbox \in Mailboxes : \E incl \in BOOLEAN :
       \E mode \in {"incremental", "full", "deletions"} : \E n \in 1..MaxWorkers :
          run' = NewRun(variant, mode, "", n, {}, mailbox, incl, messages)
    /\ UNCHANGED <<schema, variant, messages, now, shutdown, lastOp, task>>

\* the run was cut short: by a shutdown request, by a listing failure, or by
\* messages that were not stored
CutShort(r, flag) ==
    \/ flag
    \/ r.pc = "failed"
    \/ \E f \in DOMAIN r.futures : r.futures[f].outcome # "success"

\* main.py is started again after a run that was cut short: a new process,
\* with a new shutdown_state, calls all_messages or sync_deleted_messages (with
\* the number of workers of the run before)
NextInvocation ==
    /\ run.pc \in {"done", "failed"}
    /\ CutShort(run, shutdown)
    /\ shutdown' = FALSE
    /\ \E mode \in {"incremental", "full", "deletions"} :
          run' = NewRun(variant, mode, "", run.num_workers, {},
                        run.mailbox, run.inclusive, messages)
    /\ UNCHANGED <<schema, variant, messages, now, lastOp, task>>

InitRuns ==
    /\ variant = "gmail"
    /\ messages \in {InitialTable(k) : k \in 0..MaxIds}
    /\ now = 0
    /\ shutdown = FALSE
    /\ lastOp = Op("init", <<>>, {}, {}, {}, "none", TRUE, messages)
    /\ task = NoTask
    /\ run = NoRun
    /\ schema = MigratedSchema

NextRuns ==
    \/ FirstInvocation
    \/ NextInvocation
    \/ ListPage
    \/ ListPageFails
    \/ ListDone
    \/ ListingChecked
    \/ RunDetect
    \/ SubmitAll
    \/ PoolStart
    \/ PoolLoopHead
    \/ PoolProviderCall
    \/ PoolRetryCheck
    \/ PoolSleep
    \/ PoolUpsert
    \/ CollectFuture
    \/ ReturnCount
    \/ HandleSigint

SpecRuns == InitRuns /\ [][NextRuns]_vars

\* One run of gmail_to_sqlite as main.py starts it.
NextMainRun ==
    \/ FirstInvocation
    \/ ListPage
    \/ ListPageFails
    \/ ListDone
    \/ ListingChecked
    \/ RunDetect
    \/ SubmitAll
    \/ PoolStart
    \/ PoolLoopHead
    \/ PoolProviderCall
    \/ PoolRetryCheck
    \/ PoolSleep
    \/ PoolUpsert
    \/ CollectFuture
    \/ ReturnCount
    \/ HandleSigint

\* The steps the program takes by itself: the calling thread goes on, and the
\* threads of the pool are scheduled, as long as a step is possible.
RunSteps ==
    \/ ListPage
    \/ ListDone
    \/ ListingChecked
    \/ RunDetect
    \/ SubmitAll
    \/ PoolStart
    \/ PoolLoopHead
    \/ PoolProviderCall
    \/ PoolRetryCheck
    \/ PoolSleep
    \/ PoolUpsert
    \/ CollectFuture
    \/ ReturnCount

SpecRunFair == InitRuns /\ [][NextMainRun]_vars /\ WF_vars(RunSteps)

\* the table of k messages after an earlier run marked message 1 deleted
TableAfterDeletion(k) ==
    [i \in 1..k |-> [InitialTable(k)[i] EXCEPT !.is_deleted = (i = 1)]]

\* One run of gmail_to_sqlite on a table that earlier runs filled and in which
\* they may have marked a message deleted; the mailbox may hold that message again.
InitAfterDeletion ==
    /\ variant = "gmail"
    /\ messages \in {InitialTable(k) : k \in 0..MaxIds}
                    \cup {TableAfterDeletion(k) : k \in 1..MaxIds}
    /\ now = 0
    /\ shutdown = FALSE
    /\ lastOp = Op("init", <<>>, {}, {}, {}, "none", TRUE, messages)
    /\ task = NoTask
    /\ run = NoRun
    /\ schema = MigratedSchema

SpecAfterDeletion == InitAfterDeletion /\ [][NextMainRun]_vars

----------------------------------------------------------------------------
\* The migration calls on one database file.

MigrationCall(name, out, fault) ==
    /\ Len(schema.log) < MaxCalls
    /\ schema' = SchemaState(out.db,
                             Append(schema.log,
                                    [op |-> name, fault |-> fault, ret |-> out.ok,
                                     before |-> schema.db, after |-> out.db]))
    /\ UNCHANGED <<variant, messages, now, shutdown, lastOp, task, run>>

\* db.init: run_migrations()
RunMigrations ==
    \E fault \in MigrationFaults :
        MigrationCall("run_migrations", run_migrations(schema.db, fault), fault)

\* a direct call of run() of migration v1
MigrationV1Run ==
    \E fault \in MigrationFaults :
        MigrationCall("migration_v1", migration_v1_run(schema.db, fault), fault)

\* a direct call of set_schema_version(version), as in test_schema_version_functions
SetSchemaVersion ==
    \E version \in Versions, fault \in {"none", "create_table", "insert"} :
        LET out == set_schema_version(schema.db, version, fault)
        IN  /\ Len(schema.log) < MaxCalls
            /\ schema' = SchemaState(out.db,
                                     Append(schema.log,
                                            [op |-> "set_schema_version", arg |-> version,
                                             fault |-> fault, ret |-> out.ok,
                                             before |-> schema.db, after |-> out.db]))
            /\ UNCHANGED <<variant, messages, now, shutdown, lastOp, task, run>>

InitMigrate ==
    /\ variant = "gmail"
    /\ messages \in {InitialTable(k) : k \in 0..MaxIds}
    /\ now = 0
    /\ shutdown = FALSE
    /\ lastOp = Op("init", <<>>, {}, {}, {}, "none", TRUE, messages)
    /\ task = NoTask
    /\ run = NoRun
    /\ schema \in {SchemaState(db, <<>>) : db \in SchemasBeforeMigration}

NextMigrate ==
    \/ RunMigrations
    \/ MigrationV1Run

SpecMigrate == InitMigrate /\ [][NextMigrate]_vars

\* set_schema_version called any number of times on a database db.init opened
NextVersion == SetSchemaVersion

SpecVersion == InitMigrate /\ [][NextVersion]_vars

----------------------------------------------------------------------------
\* mark_messages_as_deleted called with lists longer than the ids of one UPDATE

\* the lengths of the lists: below, at and above one and two times batch_size
MarkListLengths == {0, 1, 99, 100, 101, 200, 201, 250}

\* the ids a table may hold: the first and the last of a slice of 100, and
\* those of the slices a list of 101 to 250 ids ends with
MarkStoreIds == {1, 100, 101, 200, 201}

SparseTable(S) == [i \in S |-> InsertedRow(from_raw(FirstRaw(i)), 0)]

\* the list of the ids 1..n, ascending or descending
IdList(n, descending) == [k \in 1..n |-> IF descending THEN n + 1 - k ELSE k]

\* db.mark_messages_as_deleted(message_ids) of gmail_to_sqlite and of src/db.py
MarkMessagesAsDeleted ==
    /\ variant \in {"gmail", "legacy"}
    /\ now < MaxClock
    /\ \E n \in MarkListLengths : \E descending \in BOOLEAN :
          LET ids == IdList(n, descending)
          IN /\ messages' = IF variant = "gmail"
                            THEN mark_messages_as_deleted(messages, ids, now + 1)
                            ELSE legacy_mark_messages_as_deleted(messages, ids)
             /\ now' = IF ids = <<>> THEN now ELSE now + 1
             /\ lastOp' = Op("mark_messages_as_deleted", <<>>, {}, Range(ids),
                             Range(ids) \cap DOMAIN messages,
                             IF ids = <<>> THEN "empty" ELSE "none", TRUE, messages)
    /\ UNCHANGED <<schema, variant, shutdown, task, run>>

InitMark ==
    /\ variant \in {"gmail", "legacy"}
    /\ messages \in {SparseTable(S) : S \in SUBSET MarkStoreIds}
    /\ now = 0
    /\ shutdown = FALSE
    /\ lastOp = Op("init", <<>>, {}, {}, {}, "none", TRUE, messages)
    /\ task = NoTask
    /\ run = NoRun
    /\ schema = MigratedSchema

NextMark == MarkMessagesAsDeleted

SpecMark == InitMark /\ [][NextMark]_vars

----------------------------------------------------------------------------
\* What the last operation did.

UpsertOps == {"create_message", "create_messages_batch"}

\* the ids the last operation upserted
UpsertedIds == {lastOp.msgs[k].id : k \in 1..Len(lastOp.msgs)}

\* the message the last operation upserted for id i
UpsertedMsg(i) == lastOp.msgs[CHOOSE k \in 1..Len(lastOp.msgs) : lastOp.msgs[k].id = i]

\* the last operation was a successful upsert and i one of its ids
Upserted(i) == lastOp.op \in UpsertOps /\ lastOp.ok /\ i \in UpsertedIds

\* ... and the table already held a row for i
Conflicted(i) == Upserted(i) /\ i \in DOMAIN lastOp.prev

\* the last operation marked rows as deleted
MarkOps == {"detect", "mark_messages_as_deleted"}

\* C1 (as stated): an upsert with an empty clobber set that conflicts with a
\* stored row leaves every content field of the row as it was stored.
C1_ContentPreservation ==
    \A i \in Ids :
        (Conflicted(i) /\ lastOp.op = "create_message" /\ lastOp.clobber = {})
        => \A f \in ContentFields : messages[i][f] = lastOp.prev[i][f]

\* C2: an upsert with clobber set C that conflicts with a stored row gives every
\* content field named in C the incoming value and leaves every other content
\* field as it was stored.
C2_ClobberOverride ==
    \A i \in Ids :
        (variant = "mail" /\ Conflicted(i))
        => \A f \in ContentFields :
              messages[i][f] = IF f \in lastOp.clobber
                               THEN UpsertedMsg(i)[f]
                               ELSE lastOp.prev[i][f]

\* C2 witness: body "A" is stored, body "B" is upserted with clobber set {body}:
\* the stored body is "B" and the stored subject is still "A".
C2_Witness ==
    /\ variant = "mail"
    /\ Conflicted(1)
    /\ lastOp.clobber = {"body"}
    /\ lastOp.prev[1].body = "A"
    /\ UpsertedMsg(1).body = "B"
    /\ messages[1].body = "B"
    /\ messages[1].subject = "A"

\* C3 (as stated): every upsert that conflicts with a stored row, whatever the
\* clobber set, stores the incoming is_read and labels, the write time as
\* last_indexed and is_deleted = false.
C3_VolatileOverwritten ==
    \A i \in Ids :
        Conflicted(i)
        => /\ messages[i].is_read = UpsertedMsg(i).is_read
           /\ messages[i].labels = UpsertedMsg(i).labels
           /\ messages[i].last_indexed = now
           /\ messages[i].is_deleted = FALSE

\* C3 (amended): every upsert that conflicts with a stored row stores the write
\* time as last_indexed; the upserts that take no clobber set also store the
\* incoming is_read and labels and is_deleted = false; the upsert that takes a
\* clobber set stores the incoming is_read (labels) only when the clobber set
\* names it, and keeps the stored value otherwise.
C3_VolatileOverwrittenAmended ==
    \A i \in Ids :
        Conflicted(i)
        => /\ messages[i].last_indexed = now
           /\ variant # "mail"
              => /\ messages[i].is_read = UpsertedMsg(i).is_read
                 /\ messages[i].labels = UpsertedMsg(i).labels
                 /\ messages[i].is_deleted = FALSE
           /\ variant = "mail"
              => \A f \in {"is_read", "labels"} :
                    messages[i][f] = IF f \in lastOp.clobber
                                     THEN UpsertedMsg(i)[f]
                                     ELSE lastOp.prev[i][f]

\* C3 witness: a deleted, unread row is upserted with a read message.
C3_Witness ==
    /\ variant = "gmail"
    /\ Conflicted(1)
    /\ lastOp.prev[1].is_deleted
    /\ ~lastOp.prev[1].is_read
    /\ UpsertedMsg(1).is_read
    /\ lastOp.prev[1].last_indexed < now
    /\ messages[1].is_read
    /\ ~messages[1].is_deleted

\* C4: a detection that is not abandoned for a requested shutdown marks exactly
\* the active local ids that are not remote ids: that is the set the code
\* computes, those rows are deleted afterwards, and no other row changes.
C4_DeletionReconciliation ==
    (lastOp.op = "detect" /\ lastOp.skip # "shutdown")
    => LET target == get_active_message_ids(lastOp.prev) \ lastOp.remote
       IN /\ lastOp.marked = target
          /\ DOMAIN messages = DOMAIN lastOp.prev
          /\ \A i \in DOMAIN messages :
                /\ i \in target => messages[i].is_deleted
                /\ i \notin target => messages[i] = lastOp.prev[i]

\* C4 witness: active ids {1, 2, 3}, remote ids {1, 3}: 2 is marked, 1 and 3 not.
C4_Witness ==
    /\ lastOp.op = "detect"
    /\ get_active_message_ids(lastOp.prev) = {1, 2, 3}
    /\ lastOp.remote = {1, 3}
    /\ messages[2].is_deleted
    /\ ~messages[1].is_deleted
    /\ ~messages[3].is_deleted

\* C5: a successful upsert of the id of a row with is_deleted = true leaves the
\* row with is_deleted = false.
C5_Resurrection ==
    \A i \in Ids :
        (Conflicted(i) /\ lastOp.prev[i].is_deleted) => ~messages[i].is_deleted

\* C5 witness: a row marked deleted has been upserted again.
C5_Witness ==
    \E i \in Ids :
        /\ Conflicted(i)
        /\ lastOp.op = "create_message"
        /\ lastOp.prev[i].is_deleted
        /\ ~messages[i].is_deleted

\* C6: is_deleted of a row goes from false to true only in a step that marks
\* deleted rows (the detector; mark_messages_as_deleted of db.py), and from true
\* to false only in a successful upsert of that id; a new row is not deleted.
C6_IsDeletedTransitions ==
    \A i \in DOMAIN messages :
        /\ (i \in DOMAIN lastOp.prev /\ ~lastOp.prev[i].is_deleted /\ messages[i].is_deleted)
           => /\ lastOp.op \in MarkOps
              /\ i \in lastOp.marked
              /\ variant = "gmail" => lastOp.op = "detect"
        /\ (i \in DOMAIN lastOp.prev /\ lastOp.prev[i].is_deleted /\ ~messages[i].is_deleted)
           => Upserted(i)
        /\ i \notin DOMAIN lastOp.prev => ~messages[i].is_deleted

\* C6 witness: the detector has just marked a row that was not deleted.
C6_Witness ==
    \E i \in DOMAIN messages :
        /\ lastOp.op = "detect"
        /\ ~lastOp.prev[i].is_deleted
        /\ messages[i].is_deleted

----------------------------------------------------------------------------
\* The fetch of one message (SpecFetch).

Last(h) == h[Len(h)]

\* the attempts were k transient failures and then a success
TransientThenOk(h) ==
    /\ h # <<>>
    /\ Last(h).kind = "ok"
    /\ \A j \in 1..(Len(h) - 1) : Transient(h[j])

\* every attempt failed with a transient error
AllTransient(h) == h # <<>> /\ \A j \in 1..Len(h) : Transient(h[j])

\* C8: when the provider fails transiently k times (k in 0..2) and then answers
\* a message that decodes and is stored, the worker returns success after
\* exactly k + 1 provider calls, k sleeps, one decode and one upsert.
C8_RetryAccounting ==
    (task.pc = "done" /\ TransientThenOk(task.hist) /\ ~task.store_error)
    => LET k == Len(task.hist) - 1
       IN /\ k \in 0..2
          /\ task.outcome = "success"
          /\ task.result
          /\ task.calls = k + 1
          /\ task.sleeps = k
          /\ task.decodes = 1
          /\ task.upserts = 1
          /\ task.id \in DOMAIN messages

\* C8 witness: a timeout, a 503, then a message: success after 3 calls, 2 sleeps.
C8_Witness ==
    /\ task.pc = "done"
    /\ Len(task.hist) = 3
    /\ task.hist[1].kind = "timeout"
    /\ task.hist[2].kind = "http" /\ task.hist[2].status = 503
    /\ task.hist[3].kind = "ok"
    /\ task.result
    /\ task.calls = 3
    /\ task.sleeps = 2

\* C9: when every attempt fails with a transient error and no shutdown
\* interrupts the fetch, the worker returns failure after exactly 3 provider
\* calls and 2 sleeps, without any decode or upsert; no fetch makes more than 3
\* calls or 2 sleeps.
C9_RetryCap ==
    /\ task.calls <= 3
    /\ task.sleeps <= 2
    /\ (task.pc = "done" /\ AllTransient(task.hist) /\ task.outcome # "interrupted")
       => /\ task.outcome = "failed"
          /\ ~task.result
          /\ task.calls = 3
          /\ task.sleeps = 2
          /\ task.decodes = 0
          /\ task.upserts = 0
          /\ now = 0

\* C9 witness: three transient failures, the fetch has failed.
C9_Witness ==
    /\ task.pc = "done"
    /\ task.outcome = "failed"
    /\ Len(task.hist) = 3
    /\ AllTransient(task.hist)
    /\ task.hist[1].kind = "http"
    /\ task.hist[3].kind = "timeout"

\* C10: an attempt that fails with a permanent error (an HttpError with a
\* status below 500) ends the fetch at once as a failure, with no sleep after
\* it and no write of the table; on the first attempt that is exactly 1
\* provider call and 0 sleeps.
C10_NonRetry ==
    (task.hist # <<>> /\ Permanent(Last(task.hist)))
    => /\ task.pc = "done"
       /\ task.outcome = "failed"
       /\ ~task.result
       /\ task.calls = Len(task.hist)
       /\ task.sleeps = Len(task.hist) - 1
       /\ task.upserts = 0
       /\ now = 0

\* C10 witness: the first attempt met a 404: failure after 1 call, 0 sleeps.
C10_Witness ==
    /\ task.pc = "done"
    /\ task.outcome = "failed"
    /\ Len(task.hist) = 1
    /\ task.hist[1].kind = "http"
    /\ task.hist[1].status = 404
    /\ task.calls = 1
    /\ task.sleeps = 0

\* C11 (as stated): an attempt whose answer does not decode ends the fetch at
\* once as a failure: no retry, no sleep and no provider call follow it.
C11_DecodeFailureNotRetried ==
    \A j \in 1..Len(task.hist) :
        task.hist[j].kind = "decode_error"
        => /\ j = Len(task.hist)
           /\ task.pc = "done"
           /\ task.outcome = "failed"
           /\ task.sleeps = j - 1

\* C12: when the write of a fetched and decoded message raises, the worker
\* returns failure at once: one upsert attempt, no provider call and no sleep
\* after it, and the table as it was; after a first attempt that succeeded that
\* is exactly 1 provider call, 1 upsert attempt and 0 sleeps.
C12_StoreErrorNotRetried ==
    task.store_error
    => /\ task.pc = "done"
       /\ task.outcome = "failed"
       /\ ~task.result
       /\ task.upserts = 1
       /\ Last(task.hist).kind = "ok"
       /\ task.calls = Len(task.hist)
       /\ task.sleeps = Len(task.hist) - 1
       /\ messages = lastOp.prev

\* C12 witness: the first attempt answered a message without any date, whose
\* insert violates NOT NULL: failure after 1 call, 1 upsert attempt, 0 sleeps.
C12_Witness ==
    /\ task.pc = "done"
    /\ task.store_error
    /\ task.msg.timestamp = Null
    /\ task.outcome = "failed"
    /\ task.calls = 1
    /\ task.upserts = 1
    /\ task.sleeps = 0

----------------------------------------------------------------------------
\* A run (SpecRun).

\* the futures whose thread_worker has begun
Attempted(futs) == {f \in DOMAIN futs : futs[f].pc # "submitted"}

\* the futures whose worker fetched and stored its message
Succeeded(futs) == {f \in DOMAIN futs : futs[f].result}

\* the ids of the futures
FutureIds(futs) == {futs[f].id : f \in DOMAIN futs}

\* C13: once the shutdown is requested, a worker that begins a queued message
\* ends it without any provider call, no attempt (first or retry) passes the
\* head of the retry loop, and no retry goes on to its sleep; the messages
\* attempted never outnumber the candidates.
C13_CancellationBound ==
    /\ [](Cardinality(Attempted(run.futures)) <= Len(run.ids))
    /\ [][(shutdown /\ run.pc = "pool" /\ run'.pc = "pool")
          => \A f \in DOMAIN run.futures :
                /\ run.futures[f].pc = "submitted"
                   => \/ run'.futures[f].pc = "submitted"
                      \/ /\ run'.futures[f].pc = "done"
                         /\ run'.futures[f].outcome = "cancelled"
                         /\ run'.futures[f].calls = 0
                /\ run.futures[f].pc \in {"loop", "retry"}
                   => \/ run'.futures[f] = run.futures[f]
                      \/ /\ run'.futures[f].pc = "done"
                         /\ run'.futures[f].calls = run.futures[f].calls]_vars

\* C13 witness: after the shutdown request one message ended without any
\* provider call and another was stopped before its retry.
C13_Witness ==
    /\ shutdown
    /\ run.pc = "pool"
    /\ \E f, g \in DOMAIN run.futures :
          /\ run.futures[f].outcome = "cancelled"
          /\ run.futures[f].calls = 0
          /\ run.futures[g].outcome = "interrupted"
          /\ run.futures[g].calls = 1
          /\ run.futures[g].sleeps = 0

\* C14 (as stated): when the listing observes the shutdown request, the ids
\* collected from the pages and windows listed before go on to the fetch stage.
C14_CollectedIdsProceed ==
    (run.pc = "done" /\ run.observed = "list")
    => run.discarded \subseteq FutureIds(run.futures)

\* C14 (amended): when the listing, or the check that follows it, observes the
\* shutdown request, every id collected so far is dropped: the run submits no
\* fetch, does not call the detector, writes nothing and returns 0.
C14_ListingCancelDropsAll ==
    run.observed # "none"
    => /\ run.pc \in {"list", "list_end", "listed", "done"}
       /\ run.futures = <<>>
       /\ run.snapshot = Null
       /\ now = 0
       /\ run.pc = "done"
          => /\ run.returned = IF run.mode = "deletions" THEN Null ELSE Some(0)
             /\ Range(run.ids) \subseteq run.discarded

\* C14 witness: the second window met the shutdown request after the first
\* window was listed; the ids of the first window were dropped and the run
\* returned 0.
C14_Witness ==
    /\ run.pc = "done"
    /\ run.observed = "list"
    /\ run.qi = 2
    /\ run.ids # <<>>
    /\ Range(run.ids) \subseteq run.discarded
    /\ run.futures = <<>>
    /\ run.returned = Some(0)

\* C15 (as stated): no id is fetched by two workers of one run.
C15_DispatchedOnce ==
    \A f, g \in DOMAIN run.futures :
        (f # g /\ run.futures[f].calls > 0 /\ run.futures[g].calls > 0)
        => run.futures[f].id # run.futures[g].id

\* C16 (as stated): all_messages returns the number of messages whose fetch and
\* upsert succeeded in the run, every outcome counted once.
C16_ReturnedCount ==
    (variant = "gmail" /\ run.pc = "done" /\ run.returned # Null)
    => /\ run.returned = Some(Cardinality(Succeeded(run.futures)))
       /\ Succeeded(run.futures) \subseteq run.counted

\* C17: at most num_workers messages are in progress (begun and not finished)
\* at any time.
C17_BoundedParallelism ==
    Cardinality(Running(run.futures)) <= run.num_workers

\* C17 witness: two workers, both busy, a third message waiting.
C17_Witness ==
    /\ run.pc = "pool"
    /\ run.num_workers = 2
    /\ Cardinality(Running(run.futures)) = 2
    /\ Queued(run.futures) # {}

\* the listing of the run's queries is over and met no shutdown request
ListingComplete ==
    /\ run.observed = "none"
    /\ run.pc \in {"listed", "dispatch", "pool", "done"}

\* the listed queries that hold exactly the window term op:t
ListedWindow(op, ts) ==
    {k \in DOMAIN run.listed : run.listed[k].terms = {Term(op, ts)}}

\* C18 (as stated): an incremental run reads last and first from the table at
\* its start; it lists a window "after last" iff last exists, a window "before
\* first" iff first exists, each window by a listing of its own, and one
\* unbounded window iff neither exists; its candidates are the messages of the
\* mailbox that match a listed window.
C18_QueryWindows ==
    /\ (run.mode = "incremental" /\ run.pc \in {"list", "mail_list"} /\ run.listed = <<>>)
       => /\ run.last = last_indexed(messages)
          /\ run.first = first_indexed(messages)
    /\ (run.mode = "incremental" /\ ListingComplete)
       => /\ \A k \in DOMAIN run.listed : Cardinality(run.listed[k].terms) <= 1
          /\ run.last # Null => Cardinality(ListedWindow("after", run.last)) = 1
          /\ run.first # Null => Cardinality(ListedWindow("before", run.first)) = 1
          /\ Cardinality({k \in DOMAIN run.listed : run.listed[k].terms = {}})
                = IF run.last = Null /\ run.first = Null THEN 1 ELSE 0
          /\ Len(run.listed) = (IF run.last # Null THEN 1 ELSE 0)
                               + (IF run.first # Null THEN 1 ELSE 0)
                               + (IF run.last = Null /\ run.first = Null THEN 1 ELSE 0)
          /\ Range(run.ids) =
                {id \in run.mailbox :
                    \E k \in DOMAIN run.listed :
                        QueryMatches(run.listed[k], id, run.inclusive)}

\* C19: an incremental run never calls the detector, and no step of it turns
\* is_deleted of a row from false to true.
C19_DetectorOnlyOnRequest ==
    /\ [](run.mode = "incremental" => run.snapshot = Null)
    /\ [][run.mode = "incremental"
          => \A i \in DOMAIN messages :
                ~messages[i].is_deleted => ~messages'[i].is_deleted]_vars

\* C19 witness: an incremental run of gmail_to_sqlite has ended, the table
\* holds a message that is no longer in the mailbox, and no row is deleted.
C19_Witness ==
    /\ variant = "gmail"
    /\ run.mode = "incremental"
    /\ run.pc = "done"
    /\ run.observed = "none"
    /\ Succeeded(run.futures) # {}
    /\ DOMAIN messages \ run.mailbox # {}
    /\ \A i \in DOMAIN messages : ~messages[i].is_deleted

\* C20 (as stated): the detector of a full or sync-deletions run, whatever the
\* arguments of the run, marks no row whose message is still in the mailbox.
C20_RemoteNeverMarked ==
    (run.pc # "idle" /\ lastOp.op = "detect")
    => lastOp.marked \cap run.mailbox = {}

----------------------------------------------------------------------------
\* The watermarks of the table (Spec).

\* the timestamps of the rows that have one
Timestamps(store) == {store[i].timestamp[1] : i \in TimestampedRows(store)}

Least(S) == CHOOSE x \in S : \A y \in S : x <= y

Greatest(S) == CHOOSE x \in S : \A y \in S : y <= x

\* C22: first_indexed and last_indexed return the least and the greatest
\* timestamp of the rows whose timestamp is not NULL, and None only when no row
\* has a timestamp (db.py filters the NULL rows; the table of gmail_to_sqlite
\* holds none).
C22_Watermarks ==
    LET T     == Timestamps(messages)
        first == IF variant = "legacy" THEN legacy_first_indexed(messages)
                 ELSE first_indexed(messages)
        last  == IF variant = "legacy" THEN legacy_last_indexed(messages)
                 ELSE last_indexed(messages)
    IN variant \in {"gmail", "legacy"}
       => /\ first = IF T = {} THEN Null ELSE Some(Least(T))
          /\ last = IF T = {} THEN Null ELSE Some(Greatest(T))

\* C22 witness: the table of db.py holds a row without timestamp and rows with
\* the timestamps 1 and 2: the watermarks are 1 and 2.
C22_Witness ==
    /\ variant = "legacy"
    /\ \E i \in DOMAIN messages : messages[i].timestamp = Null
    /\ legacy_first_indexed(messages) = Some(1)
    /\ legacy_last_indexed(messages) = Some(2)

\* C25: an upsert (without clobber set) that follows the same upsert of the
\* same messages changes nothing in the table but last_indexed of their rows;
\* and an upsert of a message whose content is the stored content leaves the
\* content fields of the row as they were.
C25_UpsertIdempotent ==
    /\ [](\A i \in Ids :
            (Conflicted(i) /\ lastOp.clobber = {}
               /\ \A f \in ContentFields : UpsertedMsg(i)[f] = lastOp.prev[i][f])
            => \A f \in ContentFields : messages[i][f] = lastOp.prev[i][f])
    /\ [][(/\ lastOp.op \in UpsertOps /\ lastOp.ok /\ lastOp.clobber = {}
           /\ lastOp'.op = lastOp.op /\ lastOp'.ok /\ lastOp'.clobber = {}
           /\ lastOp'.msgs = lastOp.msgs)
          => /\ DOMAIN messages' = DOMAIN messages
             /\ \A i \in DOMAIN messages :
                   \A f \in RowFields \ {"last_indexed"} :
                       messages'[i][f] = messages[i][f]]_vars

\* C25 witness: message 1 was inserted at time 1 in rendering "B" and upserted
\* again at time 2: the row differs in last_indexed alone.
C25_Witness ==
    /\ variant = "gmail"
    /\ now = 2
    /\ Conflicted(1)
    /\ UpsertedMsg(1).body = "B"
    /\ lastOp.prev[1] = InsertedRow(UpsertedMsg(1), 1)
    /\ messages[1] = [lastOp.prev[1] EXCEPT !.last_indexed = 2]

\* the rows the last operation turned from not deleted to deleted
NewlyDeleted ==
    {i \in DOMAIN lastOp.prev : ~lastOp.prev[i].is_deleted /\ messages[i].is_deleted}

C28_KeyedNeverDeleted ==
    /\ DOMAIN lastOp.prev \subseteq DOMAIN messages
    /\ DOMAIN messages =
          DOMAIN lastOp.prev
          \cup (IF lastOp.op \in UpsertOps /\ lastOp.ok THEN UpsertedIds ELSE {})
    /\ Cardinality(DOMAIN messages) <=
          Cardinality(DOMAIN lastOp.prev)
          + (IF lastOp.op \in UpsertOps /\ lastOp.ok
             THEN Cardinality(UpsertedIds \ DOMAIN lastOp.prev) ELSE 0)

\* C28 witness: after some rows were marked deleted, a batch upserts a deleted
\* id, a stored id and a new id: the table holds the old ids and the new one.
C28_Witness ==
    /\ lastOp.op = "create_messages_batch"
    /\ \E i \in UpsertedIds : i \in DOMAIN lastOp.prev /\ lastOp.prev[i].is_deleted
    /\ UpsertedIds \ DOMAIN lastOp.prev # {}
    /\ DOMAIN lastOp.prev \ UpsertedIds # {}
    /\ DOMAIN messages = DOMAIN lastOp.prev \cup UpsertedIds

----------------------------------------------------------------------------
\* The shutdown flag of a run (SpecRun).

\* C27: within a run the shutdown flag, once true, stays true; and the one
\* flag is what the listing loop, the detector, the workers and the retry loop
\* read: once it is true the listing fetches no further page, a detector that
\* finds rows skips the detection, and a queued message is not begun.
C27_FlagMonotonic ==
    [][shutdown
       => /\ shutdown'
          /\ run.pc = "list"
             => (run'.pc \in {"list", "list_end"} /\ run'.page_ids = run.page_ids)
          /\ (run.pc = "detect" /\ run'.pc # "detect")
             => (lastOp'.op = "detect" /\ lastOp'.skip \in {"empty", "shutdown"})
          /\ (run.pc = "pool" /\ run'.pc = "pool")
             => \A f \in DOMAIN run.futures :
                   run.futures[f].pc \in {"submitted", "loop", "retry"}
                   => run'.futures[f].pc \in {run.futures[f].pc, "done"}]_vars

\* C27 witness: the flag was set while messages were fetched; one message had
\* been stored, one was cancelled, and the run ended with the flag still set.
C27_Witness ==
    /\ shutdown
    /\ run.pc = "done"
    /\ \E f, g \in DOMAIN run.futures :
          /\ run.futures[f].outcome = "success"
          /\ run.futures[g].outcome = "cancelled"

----------------------------------------------------------------------------
\* Failures in a run (SpecRun).

\* C23: when a listing call of all_messages or sync_deleted_messages of
\* gmail_to_sqlite fails, the run ends with an error and without a result: it
\* submits no fetch, does not call the detector and writes nothing, whatever
\* the earlier windows and pages had listed.
C23_ListingFailureFatal ==
    /\ run.error # "none"
       => /\ run.pc = "failed"
          /\ run.futures = <<>>
          /\ run.snapshot = Null
          /\ run.returned = Null
          /\ now = 0
          /\ lastOp.op \in {"init", "sigint"}
          /\ messages = lastOp.prev
    /\ run.pc = "failed" => run.error # "none"

\* C23 witness: the first window listed message ids, the listing of the second
\* window failed: the run ended with SyncError and fetched nothing.
C23_Witness ==
    /\ run.pc = "failed"
    /\ run.error = "raised"
    /\ run.qi = 2
    /\ run.ids # <<>>
    /\ run.futures = <<>>

\* the table cannot take the write a worker is about to make: the clock of the
\* model has run out
ClockStops ==
    /\ now = MaxClock
    /\ \E f \in DOMAIN run.futures : run.futures[f].pc = "upsert"

\* C24: a message that ends as a failure (retry cap, permanent error, decode
\* error, store error) changes nothing for the other messages of the run and
\* does not end the run; a run of all_messages without shutdown request returns
\* only after every candidate was attempted and its outcome was collected; and
\* without a shutdown request every candidate reaches an outcome.
C24_FailuresDoNotAbort ==
    /\ []((variant = "gmail" /\ run.pc = "done" /\ ~shutdown)
          => \A f \in DOMAIN run.futures :
                /\ run.futures[f].pc = "done"
                /\ run.futures[f].outcome \in {"success", "failed"}
                /\ run.futures[f].calls >= 1
                /\ f \in run.counted)
    /\ [][(run.pc = "pool")
          => \A f \in DOMAIN run.futures :
                (run.futures[f].outcome = "none" /\ run'.futures[f].outcome = "failed")
                => /\ run'.pc = "pool"
                   /\ \A g \in DOMAIN run.futures \ {f} :
                         run'.futures[g] = run.futures[g]]_vars
    /\ (run.pc = "pool")
          ~> (\/ shutdown
              \/ ClockStops
              \/ \A f \in DOMAIN run.futures : run.futures[f].pc = "done")

\* C24 witness: without any shutdown request, one message failed at the retry
\* cap, another met a permanent error, a third was stored, and the run
\* returned 1.
C24_Witness ==
    /\ run.pc = "done"
    /\ ~shutdown
    /\ run.returned = Some(1)
    /\ \E f, g, h \in DOMAIN run.futures :
          /\ run.futures[f].outcome = "failed" /\ run.futures[f].calls = 3
          /\ run.futures[g].outcome = "failed" /\ run.futures[g].calls = 1
          /\ run.futures[h].outcome = "success"

----------------------------------------------------------------------------
\* Runs that follow one another (SpecRuns).

\* C21 (as stated): when an incremental run of all_messages has ended without
\* shutdown request, listing failure or failed message, whatever the runs
\* before it on the same database and mailbox did, the table holds a row for
\* every message of the mailbox.
C21_MirrorComplete ==
    (/\ variant = "gmail"
     /\ run.pc = "done"
     /\ run.mode = "incremental"
     /\ ~shutdown
     /\ run.observed = "none"
     /\ \A f \in DOMAIN run.futures : run.futures[f].outcome = "success")
    => run.mailbox \subseteq DOMAIN messages

----------------------------------------------------------------------------
\* The migrations (SpecMigrate).

\* the migration calls made so far that were calls of op
CallsOf(op) == {k \in DOMAIN schema.log : schema.log[k].op = op}

\* C29: run_migrations on a database at version 0, when no statement fails,
\* leaves the column is_deleted in place and the version 1 and returns True;
\* on a database at version 1 or above it returns True and changes nothing;
\* whenever it returns True the version is 1 and the column exists, and they
\* stay so under every later call.
C29_RunMigrations ==
    \A k \in CallsOf("run_migrations") :
        LET c == schema.log[k]
        IN /\ (get_schema_version(c.before) = 0 /\ c.fault = "none")
              => (c.ret /\ c.after = SchemaOf(Some(1), TRUE))
           /\ get_schema_version(c.before) >= 1 => (c.ret /\ c.after = c.before)
           /\ c.ret => /\ c.after = SchemaOf(Some(1), TRUE)
                       /\ schema.db = SchemaOf(Some(1), TRUE)
                       /\ \A j \in DOMAIN schema.log :
                             j > k => schema.log[j].after = SchemaOf(Some(1), TRUE)

\* C29 witness: a database with rows, without version record and without the
\* column, was migrated by a first call; a second call returned True and left
\* the version at 1.
C29_Witness ==
    /\ DOMAIN messages # {}
    /\ Len(schema.log) = 2
    /\ schema.log[1].op = "run_migrations"
    /\ schema.log[1].before = SchemaOf(Null, FALSE)
    /\ schema.log[1].ret
    /\ schema.log[2].op = "run_migrations"
    /\ schema.log[2].ret
    /\ schema.db = SchemaOf(Some(1), TRUE)

\* C30: migration v1, run while the column is_deleted is absent and no
\* statement fails, adds the column and returns True; run while the column is
\* present it returns True and changes nothing; it never touches the version.
C30_MigrationV1Idempotent ==
    \A k \in CallsOf("migration_v1") :
        LET c == schema.log[k]
        IN /\ (~c.before.is_deleted /\ c.fault \notin {"add_column", "update"})
              => (c.ret /\ c.after.is_deleted)
           /\ c.before.is_deleted => (c.ret /\ c.after = c.before)
           /\ c.ret => c.after.is_deleted
           /\ c.after.version = c.before.version

\* C30 witness: the first run added the column, the second run found it and
\* returned True without any change.
C30_Witness ==
    /\ Len(schema.log) = 2
    /\ schema.log[1].op = "migration_v1"
    /\ ~schema.log[1].before.is_deleted
    /\ schema.log[1].ret
    /\ schema.log[1].after.is_deleted
    /\ schema.log[2].op = "migration_v1"
    /\ schema.log[2].ret
    /\ schema.log[2].after = schema.log[1].after
    /\ schema.db = schema.log[1].after

\* C31: get_schema_version returns 0 when the schema_version table has no row; after
\* every successful set_schema_version(v), in any sequence of such calls,
\* get_schema_version returns v and the table holds exactly one row.
C31_SchemaVersionTracking ==
    /\ schema.db.version = <<>> => get_schema_version(schema.db) = 0
    /\ \A k \in CallsOf("set_schema_version") :
           LET c == schema.log[k]
           IN  c.ret => /\ get_schema_version(c.after) = c.arg
                        /\ Len(c.after.version) = 1

\* a second successful set_schema_version replaced the version the first one wrote
C31_Witness ==
    \E j, k \in CallsOf("set_schema_version") :
        /\ k = j + 1
        /\ schema.log[j].ret /\ schema.log[k].ret
        /\ schema.log[j].arg = 5 /\ schema.log[k].arg = 2
        /\ schema.log[j].before.version = <<>>
        /\ schema.db.version = <<2>>

\* a full sync that returned, in which no cancellation was requested and every
\* fetch stored its message
CleanFullSync ==
    /\ variant = "gmail"
    /\ run.mode = "full"
    /\ run.pc = "done"
    /\ ~shutdown
    /\ run.snapshot # Null
    /\ \A f \in DOMAIN run.futures : run.futures[f].result

C33_NoDetectionOnTruncatedSnapshot ==
    (variant = "gmail" /\ run.mode \in {"full", "deletions"})
    => /\ run.observed # "none"
          => /\ lastOp.op # "detect"
             /\ \A id \in DOMAIN messages : ~messages[id].is_deleted
             /\ messages = lastOp.prev
       /\ run.snapshot # Null
          => run.snapshot[1]
             = Range(ListingOf(run.mailbox, Query(run.base_query, {}), run.inclusive))

\* sync-deleted-messages met the shutdown request after it had listed a page of a
\* mailbox that lacks a stored message: it returned without marking it
C33_Witness ==
    /\ variant = "gmail"
    /\ run.mode = "deletions"
    /\ run.pc = "done"
    /\ run.observed = "list"
    /\ run.discarded # {}
    /\ get_all_message_ids(messages) \ run.mailbox # {}
    /\ get_deleted_message_ids(messages) = {}

\* C34: after mark_messages_as_deleted(ids), for a list of any length, every id of
\* the list that the Store holds is deleted, no other record is modified, and the
\* Store is what one UPDATE over the whole list leaves; the empty list writes nothing.
C34_BatchedMarkIsOneUpdate ==
    lastOp.op = "mark_messages_as_deleted"
    => /\ DOMAIN messages = DOMAIN lastOp.prev
       /\ \A id \in DOMAIN messages :
             IF id \in lastOp.remote
             THEN /\ messages[id].is_deleted
                  /\ \A f \in RowFields \ {"is_deleted", "last_indexed"} :
                        messages[id][f] = lastOp.prev[id][f]
             ELSE messages[id] = lastOp.prev[id]
       /\ variant = "gmail" /\ lastOp.remote # {}
          => messages = MarkBatch(lastOp.prev, IdList(Cardinality(lastOp.remote), FALSE), now)
       /\ variant = "legacy"
          => messages = legacy_mark_messages_as_deleted(
                            lastOp.prev, IdList(Cardinality(lastOp.remote), FALSE))
       /\ lastOp.remote = {} => lastOp.skip = "empty" /\ messages = lastOp.prev

\* a list of 201 ids took three UPDATE statements: the stored ids 1, 101 and 201,
\* one in each of them, are deleted, the last by the statement of a single id
C34_Witness ==
    /\ variant = "gmail"
    /\ lastOp.op = "mark_messages_as_deleted"
    /\ Cardinality(lastOp.remote) = 201
    /\ {1, 101, 201} \subseteq DOMAIN messages
    /\ \A id \in {1, 101, 201} : ~lastOp.prev[id].is_deleted /\ messages[id].is_deleted

\* the table without the last_indexed values
WithoutLastIndexed(store) ==
    [i \in DOMAIN store |-> [f \in RowFields \ {"last_indexed"} |-> store[i][f]]]

\* C35: upserts of different ids commute: after two successive create_message calls
\* for different ids the Store, last_indexed aside, is the one the two calls leave
\* in the other order, and it holds what each of the two wrote.
C35_DistinctUpsertsCommute ==
    [][(/\ variant = "gmail"
        /\ lastOp.op = "create_message" /\ lastOp.ok
        /\ lastOp'.op = "create_message" /\ lastOp'.ok
        /\ lastOp.msgs[1].id # lastOp'.msgs[1].id)
       => LET a == lastOp.msgs[1]
              b == lastOp'.msgs[1]
          IN /\ WithoutLastIndexed(messages')
                = WithoutLastIndexed(create_message(create_message(lastOp.prev, b, now),
                                                    a, now + 1))
             /\ \A m \in {a, b} :
                   /\ m.id \in DOMAIN messages'
                   /\ messages'[m.id].is_read = m.is_read
                   /\ messages'[m.id].labels = m.labels
                   /\ ~messages'[m.id].is_deleted
                   /\ m.id \notin DOMAIN lastOp.prev
                      => \A f \in MessageFields : messages'[m.id][f] = m[f]]_vars

\* two create_message calls, one after the other, wrote different ids: the first
\* inserted a message that is read, the second updated a stored one that is unread
C35_Witness ==
    /\ variant = "gmail"
    /\ now = 2
    /\ lastOp.op = "create_message" /\ lastOp.ok
    /\ lastOp.msgs[1].id \in DOMAIN lastOp.prev
    /\ ~lastOp.msgs[1].is_read
    /\ \E id \in DOMAIN lastOp.prev :
          /\ id # lastOp.msgs[1].id
          /\ lastOp.prev[id].last_indexed = 1
          /\ ~lastOp.prev[id].is_deleted
          /\ lastOp.prev[id].is_read
          /\ messages[id] = lastOp.prev[id]

\* C36: whatever the provider answers, a fetch ends, as success, failure or
\* interrupted, after at most 3 provider calls and at most 2 sleeps; and a run
\* that was started does not go on for ever: with or without a shutdown request it
\* has returned or raised from some moment on (or the clock of the model has run out).
C36_Termination ==
    /\ [](\A f \in DOMAIN run.futures :
             /\ run.futures[f].calls <= MAX_RETRY_ATTEMPTS
             /\ run.futures[f].sleeps <= MAX_RETRY_ATTEMPTS - 1
             /\ run.futures[f].sleeps <= run.futures[f].calls
             /\ run.futures[f].pc = "done"
                => run.futures[f].outcome
                   \in {"success", "failed", "interrupted", "cancelled"})
    /\ <>[](run.pc \in {"idle", "done", "failed"} \/ ClockStops)

\* a run returned after a shutdown request: one fetch had failed after 3 calls and
\* 2 sleeps, another was interrupted between two attempts, a third never began
C36_Witness ==
    /\ run.pc = "done"
    /\ shutdown
    /\ \E f, g, h \in DOMAIN run.futures :
          /\ run.futures[f].outcome = "failed"
          /\ run.futures[f].calls = 3 /\ run.futures[f].sleeps = 2
          /\ run.futures[g].outcome = "interrupted" /\ run.futures[g].calls = 1
          /\ run.futures[h].outcome = "cancelled"

\* everything the query the run is listing matches, in listing order
CurrentListing == ListingOf(run.mailbox, run.queries[run.qi], run.inclusive)

\* the listings of the first k queries of the run, one after the other
RECURSIVE ListingsUpTo(_)
ListingsUpTo(k) ==
    IF k = 0 THEN <<>>
    ELSE ListingsUpTo(k - 1) \o ListingOf(run.mailbox, run.queries[k], run.inclusive)

\* C37: without shutdown request or error, a listing makes one call per page, the
\* call after a page starts where that page ended, the listing ends with the first
\* page that has no continuation token, and it returns the ids of all pages in
\* listing order, none skipped and none twice.
C37_PaginationToExhaustion ==
    /\ []((variant = "gmail" /\ run.observed = "none" /\ run.pc \notin {"idle", "failed"})
          => /\ run.pc = "list"
                => /\ run.page_ids = SubSeq(CurrentListing, 1, run.token)
                   /\ run.ids = ListingsUpTo(run.qi - 1)
             /\ run.pc = "list_end"
                => /\ run.page_ids = CurrentListing
                   /\ run.ids = ListingsUpTo(run.qi - 1)
             /\ run.pc \notin {"list", "list_end"}
                => run.ids = ListingsUpTo(Len(run.queries)))
    /\ []((variant = "mail" /\ run.pc # "idle")
          => /\ run.ids = IF run.pc = "mail_list" \/ run.token # 0
                          THEN SubSeq(CurrentListing, 1, run.token)
                          ELSE CurrentListing
             /\ run.pc = "done" => run.returned = Some(Len(CurrentListing)))
    /\ [][(run.pc \in {"list", "mail_list"} /\ ~shutdown /\ run'.pc # "failed"
           /\ run' # run)
          => \E n \in 0..Len(CurrentListing) :
                LET page == SubSeq(CurrentListing, run.token + 1, run.token + n)
                IN /\ n = 0 => CurrentListing = <<>>
                   /\ IF variant = "gmail"
                      THEN run'.page_ids = run.page_ids \o page
                      ELSE run'.ids = run.ids \o page
                   /\ IF run.token + n < Len(CurrentListing)
                      THEN run'.token = run.token + n
                           /\ (variant = "gmail" => run'.pc = "list")
                      ELSE run'.token = 0
                           /\ (variant = "gmail" => run'.pc = "list_end")]_vars

\* the first of the two queries of an incremental run is being listed: its first
\* page held one of its two ids and the call to come continues after it
C37_Witness ==
    /\ variant = "gmail"
    /\ run.pc = "list"
    /\ ~shutdown
    /\ run.qi = 1
    /\ Len(run.queries) = 2
    /\ run.token = 1
    /\ Len(CurrentListing) = 2
    /\ run.page_ids = <<CurrentListing[1]>>

\* C38: a shutdown request does not stop the attempt a worker of the pool is in:
\* its provider call is completed, and when the call succeeded the decoded message
\* is upserted and the worker returns True; no row of the Store is removed or set
\* back, before or after the request.
C38_InFlightFetchFinishes ==
    [][(variant = "gmail" /\ run.pc = "pool" /\ run'.pc = "pool")
       => /\ \A f \in DOMAIN run.futures :
                (shutdown /\ run'.futures[f] # run.futures[f])
                => /\ run.futures[f].pc = "call"
                      => /\ run'.futures[f].calls = run.futures[f].calls + 1
                         /\ Last(run'.futures[f].hist).kind = "ok"
                            => /\ run'.futures[f].pc = "upsert"
                               /\ run'.futures[f].msg.id = run.futures[f].id
                   /\ run.futures[f].pc = "upsert"
                      => /\ run'.futures[f].outcome = "success"
                         /\ run'.futures[f].result
                         /\ run.futures[f].id \in DOMAIN messages'
                         /\ messages'[run.futures[f].id].last_indexed = now'
                         /\ messages'[run.futures[f].id].is_read = run.futures[f].msg.is_read
                         /\ ~messages'[run.futures[f].id].is_deleted
          /\ \A id \in DOMAIN messages :
                /\ id \in DOMAIN messages'
                /\ messages'[id] = messages[id] \/ messages'[id].last_indexed = now']_vars

\* after the shutdown request a worker stored the message its call had fetched,
\* while another fetch of the run never began; what the run wrote before is kept
C38_Witness ==
    /\ variant = "gmail"
    /\ shutdown
    /\ run.pc = "pool"
    /\ lastOp.op = "create_message" /\ lastOp.ok
    /\ now = 2
    /\ \E f, g \in DOMAIN run.futures :
          /\ run.futures[f].id = lastOp.msgs[1].id
          /\ run.futures[f].outcome = "success"
          /\ run.futures[g].outcome = "cancelled"
    /\ \E id \in DOMAIN messages : id \notin DOMAIN lastOp.prev
    /\ \E id \in DOMAIN lastOp.prev :
          lastOp.prev[id].last_indexed = 1 /\ messages[id] = lastOp.prev[id]

\* C39: single_message polls the shutdown flag before the fetch and after it; when
\* the flag is set at one of the two polls the call returns without writing, and
\* the Store is as it was before the call.
C39_SingleMessageCancellation ==
    /\ [][(shutdown /\ task' # task /\ task.pc \in {"submitted", "upsert"})
          => /\ task'.pc = "done"
             /\ task'.outcome = IF task.pc = "submitted" THEN "cancelled"
                                ELSE "cancelled_after_fetch"
             /\ messages' = messages]_vars
    /\ [](task.outcome \in {"cancelled", "cancelled_after_fetch"}
          => /\ shutdown
             /\ task.upserts = 0
             /\ now = 0
             /\ lastOp.op = "sigint"
             /\ messages = lastOp.prev)

\* SIGINT came while the provider call of sync-message was under way: the call
\* returned the message, the poll after the fetch saw the flag, and the message,
\* which the Store did not hold, was not written
C39_Witness ==
    /\ shutdown
    /\ task.outcome = "cancelled_after_fetch"
    /\ task.calls = 1
    /\ task.msg.id = task.id
    /\ task.id \notin DOMAIN messages
    /\ messages # <<>>

====
